---- MODULE Spec2Model ----
(***************************************************************************)
(* Model of the barcode backend (nehal7125/backend_barcode).               *)
(*                                                                         *)
(* Strings are sequences of one-character strings ("5", "H"), so that      *)
(* join, slice, length and per-character comparison are modelled by what   *)
(* they do.  JavaScript null and the empty string are both falsy and the   *)
(* code only ever tests them for truthiness or length, so both are the     *)
(* empty sequence Null.                                                    *)
(*                                                                         *)
(* Indices are 0-based as in the source; At and Slice translate them.      *)
(***************************************************************************)
EXTENDS Integers, Sequences, FiniteSets, TLC

Null == <<>>

\* F(v) and F(v, w), with v and w evaluated once
Apply(F(_), v) == CHOOSE r \in {F(x) : x \in {v}} : TRUE

Apply2(F(_, _), v, w) == CHOOSE r \in {F(x, y) : x \in {v}, y \in {w}} : TRUE

Min(S) == CHOOSE x \in S : \A y \in S : x <= y

\* widths[i] with a 0-based index (an index in range)
At(s, i) == s[i + 1]

\* Array.prototype.slice(from, to) with 0-based bounds, clipped to the array
Slice(s, from, to) == SubSeq(s, from + 1, IF to > Len(s) THEN Len(s) ELSE to)

RECURSIVE Concat(_)
\* concatenation of a sequence of sequences
Concat(ss) == IF ss = <<>> THEN <<>> ELSE Head(ss) \o Concat(Tail(ss))

----------------------------------------------------------------------------
(* Number formatting: Array.prototype.join('') and Number.toString         *)

DigitChars == <<"0", "1", "2", "3", "4", "5", "6", "7", "8", "9">>

\* parseInt of one decimal character
ParseInt(c) == (CHOOSE i \in 1..10 : DigitChars[i] = c) - 1

RECURSIVE NumToString(_)
\* Number.prototype.toString of a natural number, as a character sequence
NumToString(n) ==
    IF n < 10 THEN <<DigitChars[n + 1]>>
    ELSE NumToString(n \div 10) \o <<DigitChars[(n % 10) + 1]>>

\* pattern.join(''): the decimal digits of every element, concatenated
Join(pattern) == Concat([i \in 1..Len(pattern) |-> NumToString(pattern[i])])

----------------------------------------------------------------------------
(* RealBarcodeDecoder: pattern tables                                      *)

EAN13_LEFT_PATTERNS ==
    << <<0, 0, 0, 1, 1, 0, 1>>, <<0, 0, 1, 1, 0, 0, 1>>, <<0, 0, 1, 0, 0, 1, 1>>,
       <<0, 1, 1, 1, 1, 0, 1>>, <<0, 1, 0, 0, 0, 1, 1>>, <<0, 1, 1, 0, 0, 0, 1>>,
       <<0, 1, 0, 1, 1, 1, 1>>, <<0, 1, 1, 1, 0, 1, 1>>, <<0, 1, 1, 0, 1, 1, 1>>,
       <<0, 0, 0, 1, 0, 1, 1>> >>

EAN13_RIGHT_PATTERNS ==
    << <<1, 1, 1, 0, 0, 1, 0>>, <<1, 1, 0, 0, 1, 1, 0>>, <<1, 1, 0, 1, 1, 0, 0>>,
       <<1, 0, 0, 0, 0, 1, 0>>, <<1, 0, 1, 1, 1, 0, 0>>, <<1, 0, 0, 1, 1, 1, 0>>,
       <<1, 0, 1, 0, 0, 0, 0>>, <<1, 0, 0, 0, 1, 0, 0>>, <<1, 0, 0, 1, 0, 0, 0>>,
       <<1, 1, 1, 0, 1, 0, 0>> >>

CODE128_PATTERNS ==
    << <<2, 1, 2, 2, 2, 2>>, <<2, 2, 2, 1, 2, 2>>, <<2, 2, 2, 2, 2, 1>>,
       <<1, 2, 1, 2, 2, 3>>, <<1, 2, 1, 3, 2, 2>>, <<1, 3, 1, 2, 2, 2>>,
       <<1, 2, 2, 2, 1, 3>>, <<1, 2, 2, 3, 1, 2>>, <<1, 3, 2, 2, 1, 2>>,
       <<2, 2, 1, 2, 1, 3>> >>

----------------------------------------------------------------------------
(* RealBarcodeDecoder: pattern matching and digit lookup                   *)

\* matches >= pattern1.length * 0.8, on two strings
patternMatch(pattern1, pattern2) ==
    LET Match(p1, p2) ==
            /\ Len(p1) = Len(p2)
            /\ 10 * Cardinality({i \in 1..Len(p1) : p1[i] = p2[i]}) >= 8 * Len(p1)
    IN  Apply2(Match, pattern1, pattern2)

\* The lookup loop shared by the three digit decoders: Object.entries visits
\* the keys '0'..'9' in ascending order and the first match is returned.
LookupDigit(table, pattern, size) ==
    LET First(hits) == IF hits = {} THEN Null ELSE <<DigitChars[Min(hits)]>>
        Lookup(patternStr) ==
            Apply(First, {k \in 1..10 : patternMatch(patternStr, Join(table[k]))})
    IN  IF Len(pattern) # size THEN Null ELSE Apply(Lookup, Join(pattern))

decodeEAN13LeftDigit(pattern) == LookupDigit(EAN13_LEFT_PATTERNS, pattern, 7)

decodeEAN13RightDigit(pattern) == LookupDigit(EAN13_RIGHT_PATTERNS, pattern, 7)

decodeCode128Character(pattern) == LookupDigit(CODE128_PATTERNS, pattern, 6)

----------------------------------------------------------------------------
(* RealBarcodeDecoder: check digits                                        *)

RECURSIVE WeightedSum(_, _, _, _)
\* sum over i >= from (0-based) of digit * (evenWeight if i even else oddWeight)
WeightedSum(digits, from, evenWeight, oddWeight) ==
    IF from >= Len(digits) THEN 0
    ELSE ParseInt(At(digits, from)) * (IF from % 2 = 0 THEN evenWeight ELSE oddWeight)
         + WeightedSum(digits, from + 1, evenWeight, oddWeight)

calculateEAN13CheckDigit(digits) ==
    NumToString((10 - (WeightedSum(digits, 0, 1, 3) % 10)) % 10)

\* the EAN-8 check digit with the weights of EAN-13
calculateEAN8CheckDigitAsEAN13(digits) ==
    NumToString((10 - (WeightedSum(digits, 0, 1, 3) % 10)) % 10)

calculateEAN8CheckDigit(digits) ==
    NumToString((10 - (WeightedSum(digits, 0, 3, 1) % 10)) % 10)

\* the UPC-A check digit with the weights of EAN-13
calculateUPCACheckDigitAsEAN13(digits) ==
    NumToString((10 - (WeightedSum(digits, 0, 1, 3) % 10)) % 10)

calculateUPCACheckDigit(digits) ==
    NumToString((10 - (WeightedSum(digits, 0, 3, 1) % 10)) % 10)

----------------------------------------------------------------------------
(* RealBarcodeDecoder: symbology decoders                                  *)

\* a guard search that compares the two outer widths only
FindStartOuter(widths, a, b, c, limit) ==
    LET found == {i \in 0..(limit - 1) : At(widths, i) = a /\ At(widths, i + 2) = c}
    IN  IF found = {} THEN -1 ELSE Min(found)

\* The first index i < limit with widths[i..i+2] = a,b,c, or -1
FindStart(widths, a, b, c, limit) ==
    LET found == {i \in 0..(limit - 1) :
                     At(widths, i) = a /\ At(widths, i + 1) = b /\ At(widths, i + 2) = c}
    IN  IF found = {} THEN -1 ELSE Min(found)

RECURSIVE ExtractLoop(_, _, _, _, _)
\* The digit loop of the extract functions: up to `count` groups of 7 widths
\* from currentIndex.  A group that runs past the end breaks the loop (the
\* digits so far are kept); a group that matches no table entry gives
\* "fail" (the caller returns null).
ExtractLoop(widths, currentIndex, count, right, digits) ==
    IF count = 0 \/ currentIndex + 7 > Len(widths)
    THEN [ok |-> TRUE, digits |-> digits, index |-> currentIndex]
    ELSE LET Digit(digitPattern) ==
                 IF right THEN decodeEAN13RightDigit(digitPattern)
                 ELSE decodeEAN13LeftDigit(digitPattern)
             Rest(digit, index) ==
                 IF digit = Null
                 THEN [ok |-> FALSE, digits |-> digits, index |-> index]
                 ELSE ExtractLoop(widths, index + 7, count - 1, right, digits \o digit)
         IN  Apply2(Rest, Apply(Digit, Slice(widths, currentIndex, currentIndex + 7)),
                    currentIndex)

DigitsOf(r) == IF r.ok THEN r.digits ELSE Null

extractEAN13LeftDigits(widths, startIndex) ==
    Apply(DigitsOf, ExtractLoop(widths, startIndex, 6, FALSE, <<>>))

extractEAN13RightDigits(widths, startIndex) ==
    Apply(DigitsOf, ExtractLoop(widths, startIndex, 6, TRUE, <<>>))

decodeEAN13(widths) ==
    IF Len(widths) < 95 THEN Null
    ELSE LET WithCheck(allDigits) == allDigits \o calculateEAN13CheckDigit(allDigits)
             Right(leftDigits, rightDigits) ==
                 IF rightDigits = Null \/ Len(rightDigits) # 6 THEN Null
                 ELSE Apply(WithCheck, leftDigits \o rightDigits)
             Middle(leftDigits, middleIndex) ==
                 IF leftDigits = Null \/ Len(leftDigits) # 6 THEN Null
                 ELSE IF middleIndex + 4 >= Len(widths) THEN Null
                 ELSE IF ~(/\ At(widths, middleIndex) = 0
                           /\ At(widths, middleIndex + 1) = 1
                           /\ At(widths, middleIndex + 2) = 0
                           /\ At(widths, middleIndex + 3) = 1
                           /\ At(widths, middleIndex + 4) = 0) THEN Null
                 ELSE Apply2(Right, leftDigits, extractEAN13RightDigits(widths, middleIndex + 5))
             Left(startIndex) ==
                 IF startIndex = -1 THEN Null
                 ELSE Apply2(Middle, extractEAN13LeftDigits(widths, startIndex + 3),
                             startIndex + 3 + (6 * 7))
         IN  Apply(Left, FindStart(widths, 1, 0, 1, Len(widths) - 2))

\* extractEAN8Digits and extractUPCDigits: start guard, `left` left digits,
\* 5 widths skipped, `right` right digits
ExtractGuarded(widths, left, right) ==
    LET All(r) ==
            IF ~r.ok THEN Null
            ELSE IF Len(r.digits) = left + right THEN r.digits ELSE Null
        Right(l) ==
            IF ~l.ok THEN Null
            ELSE Apply(All, ExtractLoop(widths, l.index + 5, right, TRUE, l.digits))
        Left(startIndex) ==
            IF startIndex = -1 THEN Null
            ELSE Apply(Right, ExtractLoop(widths, startIndex + 3, left, FALSE, <<>>))
    IN  Apply(Left, FindStart(widths, 1, 0, 1, Len(widths) - 2))

extractEAN8Digits(widths) == ExtractGuarded(widths, 4, 3)

extractUPCDigits(widths) == ExtractGuarded(widths, 6, 5)

\* the 7 digits returned without their check digit
decodeEAN8DataOnly(widths) ==
    IF Len(widths) < 67 THEN Null ELSE extractEAN8Digits(widths)

decodeEAN8(widths) ==
    IF Len(widths) < 67 THEN Null
    ELSE LET WithCheck(digits) ==
                 IF digits # Null /\ Len(digits) = 7
                 THEN digits \o calculateEAN8CheckDigit(digits)
                 ELSE Null
         IN  Apply(WithCheck, extractEAN8Digits(widths))

decodeUPC(widths) ==
    IF Len(widths) < 51 THEN Null
    ELSE LET WithCheck(digits) ==
                 IF digits # Null /\ Len(digits) = 11
                 THEN digits \o calculateUPCACheckDigit(digits)
                 ELSE Null
         IN  Apply(WithCheck, extractUPCDigits(widths))

RECURSIVE Code128Loop(_, _, _)
\* while (currentIndex < widths.length - 6): decode the next 6 widths, stop at
\* the first group that matches no table entry
Code128Loop(widths, currentIndex, data) ==
    IF ~(currentIndex < Len(widths) - 6) \/ currentIndex + 6 > Len(widths) THEN data
    ELSE LET Rest(char, index) ==
                 IF char = Null THEN data
                 ELSE Code128Loop(widths, index + 6, data \o char)
         IN  Apply2(Rest, decodeCode128Character(Slice(widths, currentIndex, currentIndex + 6)),
                    currentIndex)

extractCode128Data(widths, startIndex) == Code128Loop(widths, startIndex, <<>>)

decodeCode128(widths) ==
    IF Len(widths) < 20 THEN Null
    ELSE LET Data(startIndex) ==
                 IF startIndex = -1 THEN Null
                 ELSE extractCode128Data(widths, startIndex + 3)
         IN  Apply(Data, FindStart(widths, 2, 1, 1, Len(widths) - 3))

----------------------------------------------------------------------------
(* RealBarcodeDecoder: binarization of one line                            *)
(*                                                                         *)
(* A line is a sequence of gray intensities 0..255.  The source computes   *)
(* the between-class variance wB*wF*(mB-mF)^2 in floating point; here it   *)
(* is the exact rational a^2/d with a = |sumB*wF - (sum-sumB)*wB| and      *)
(* d = wB*wF, kept as a mixed number so that no intermediate value leaves  *)
(* 32 bits.  The loop over t = 0..255 only changes its running values at   *)
(* intensities that occur in the line, and it keeps the first t of the     *)
(* greatest variance above 0, so the threshold is computed from the        *)
(* classes {pixel <= t} of those intensities.                              *)

\* a^2 / d as [int, num, den]: int + num/den with 0 <= num < den
VarBetween(wB, wF, sumB, sum) ==
    LET Abs(x) == IF x < 0 THEN -x ELSE x
        Mixed(a, d) ==
            LET q == a \div d
                r == a % d
            IN  [int |-> a * q + q * r + ((r * r) \div d), num |-> (r * r) % d, den |-> d]
    IN  Apply2(Mixed, Apply(Abs, sumB * wF - (sum - sumB) * wB), wB * wF)

\* varBetween > varMax
VarGreater(v, w) ==
    \/ v.int > w.int
    \/ v.int = w.int /\ v.num * w.den > w.num * v.den

RECURSIVE SumLevels(_, _)
SumLevels(line, levels) ==
    IF levels = {} THEN 0
    ELSE LET Term(t) ==
                 t * Cardinality({i \in 1..Len(line) : line[i] = t}) + SumLevels(line, levels \ {t})
         IN  Apply(Term, Min(levels))

\* sum += i * histogram[i], over the intensities that occur
SumOf(line) == SumLevels(line, {line[i] : i \in 1..Len(line)})

\* wB, sumB and varBetween after the loop body for t; wF = 0 is the break
OtsuClass(line, sum, t) ==
    LET below == {i \in 1..Len(line) : line[i] <= t}
        wB == Cardinality(below)
        sumB == SumLevels(line, {line[i] : i \in below})
    IN  [t |-> t, wF |-> Len(line) - wB,
         varBetween |-> IF wB = Len(line) THEN [int |-> 0, num |-> 0, den |-> 1]
                        ELSE VarBetween(wB, Len(line) - wB, sumB, sum)]

\* Otsu's method: varBetween > varMax keeps the first t of the greatest variance
calculateThreshold(line) ==
    LET zero == [int |-> 0, num |-> 0, den |-> 1]
        First(classes) ==
            LET best == {c \in classes :
                           /\ c.wF # 0
                           /\ VarGreater(c.varBetween, zero)
                           /\ \A d \in classes :
                                 d.wF # 0 => ~VarGreater(d.varBetween, c.varBetween)}
            IN  IF best = {} THEN 0 ELSE Min({c.t : c \in best})
    IN  Apply(First, {OtsuClass(line, sum, t) :
                        sum \in {SumOf(line)}, t \in {line[i] : i \in 1..Len(line)}})

\* line.map(pixel => pixel < threshold ? 0 : 1)
Binarize(line, threshold) == [i \in 1..Len(line) |-> IF line[i] < threshold THEN 0 ELSE 1]

\* the loop started at i = 0, where binary[-1] is undefined and differs
FindTransitionsFromZero(binary) ==
    SelectSeq([i \in 1..Len(binary) |-> i - 1],
              LAMBDA i : i = 0 \/ At(binary, i) # At(binary, i - 1))

\* the 0-based indices i >= 1 with binary[i] # binary[i-1], ascending
FindTransitions(binary) ==
    SelectSeq([i \in 1..(Len(binary) - 1) |-> i], LAMBDA i : At(binary, i) # At(binary, i - 1))

\* barWidths: the differences of consecutive transitions
BarWidths(transitions) ==
    [i \in 1..(Len(transitions) - 1) |-> transitions[i + 1] - transitions[i]]

\* Math.round(width / minWidth) for positive integers: round half up
RoundDiv(width, minWidth) == (2 * width + minWidth) \div (2 * minWidth)

\* the widths divided by the greatest of them
NormalizeWidthsByMax(barWidths) ==
    LET maxWidth == -Min({-barWidths[i] : i \in 1..Len(barWidths)})
    IN  [i \in 1..Len(barWidths) |-> RoundDiv(barWidths[i], maxWidth)]

NormalizeWidths(barWidths) ==
    LET minWidth == Min({barWidths[i] : i \in 1..Len(barWidths)})
    IN  [i \in 1..Len(barWidths) |-> RoundDiv(barWidths[i], minWidth)]

----------------------------------------------------------------------------
(* RealBarcodeDecoder: the 1-D search as functions                         *)
(*                                                                         *)
(* An image is a sequence of rows (row 1 is y = 0), each row a sequence of *)
(* pixels.  The images considered are achromatic (r = g = b, opaque), so a *)
(* pixel is one intensity.  A score is the fraction num/den.               *)

Height(image) == Len(image)

Width(image) == IF image = <<>> THEN 0 ELSE Len(image[1])

\* Math.round(pixel.r * 0.299 + pixel.g * 0.587 + pixel.b * 0.114), r = g = b
GrayOf(pixel) == (299 * pixel + 587 * pixel + 114 * pixel + 500) \div 1000

GrayData(image) ==
    [y \in 1..Height(image) |-> [x \in 1..Width(image) |-> GrayOf(image[y][x])]]

\* Math.min(transitions / line.length * 10, 1)
analyzeBarcodeLine(line) ==
    LET score(threshold) ==
            LET transitions == Len(FindTransitions(Binarize(line, threshold)))
            IN  IF 10 * transitions < Len(line)
                THEN [num |-> 10 * transitions, den |-> Len(line)]
                ELSE [num |-> 1, den |-> 1]
    IN  Apply(score, calculateThreshold(line))

ScoreGreater(a, b) == a.num * b.den > b.num * a.den

\* Math.floor(height * 0.2) and Math.floor(height * 0.8)
BandStart(height) == (2 * height) \div 10

BandEnd(height) == (8 * height) \div 10

\* the loop over y keeps the first row of the greatest score above 0
BestLine(image) ==
    LET First(rows) ==
            LET top == {r \in rows : /\ r.score.num > 0
                                      /\ \A q \in rows : ~ScoreGreater(q.score, r.score)}
            IN  IF top = {}
                THEN [y |-> -1, line |-> <<>>, score |-> [num |-> 0, den |-> 1], found |-> FALSE]
                ELSE [(CHOOSE r \in top : \A q \in top : r.y <= q.y) EXCEPT !.found = TRUE]
    IN  Apply(First, {[y |-> y, line |-> At(grayData, y),
                       score |-> analyzeBarcodeLine(At(grayData, y)), found |-> FALSE] :
                        grayData \in {GrayData(image)},
                        y \in BandStart(Height(image))..(BandEnd(Height(image)) - 1)})

\* !bestLine || bestScore < 0.3
NoGoodLine(best) == ~best.found \/ 10 * best.score.num < 3 * best.score.den

\* the formats with Code 128 ahead of EAN-13
FormatCode128First(i, widths) ==
    CASE i = 0 -> decodeCode128(widths)
      [] i = 1 -> decodeEAN8(widths)
      [] i = 2 -> decodeEAN13(widths)
      [] i = 3 -> decodeUPC(widths)

\* formats[i], i = 0..3
Format(i, widths) ==
    CASE i = 0 -> decodeEAN13(widths)
      [] i = 1 -> decodeEAN8(widths)
      [] i = 2 -> decodeCode128(widths)
      [] i = 3 -> decodeUPC(widths)

FormatCount == 4

RECURSIVE FormatLoop(_, _)
FormatLoop(i, widths) ==
    IF i >= FormatCount THEN Null
    ELSE IF Format(i, widths) # Null THEN Format(i, widths)
    ELSE FormatLoop(i + 1, widths)

MinTransitions == 20

TransitionsOf(line) ==
    LET transitions(threshold) == FindTransitions(Binarize(line, threshold))
    IN  Apply(transitions, calculateThreshold(line))

decodeBarcodeFromLine(line) ==
    LET transitions == TransitionsOf(line)
    IN  IF Len(transitions) < MinTransitions THEN Null
        ELSE FormatLoop(0, NormalizeWidths(BarWidths(transitions)))

decodeBarcodeFromImage(image) ==
    LET best == BestLine(image)
    IN  IF NoGoodLine(best) THEN Null ELSE decodeBarcodeFromLine(best.line)

----------------------------------------------------------------------------
(* The preprocessing catalogue of decodeTraditionalBarcode.  The image     *)
(* operations are the Jimp library's, here on achromatic pixels and in     *)
(* exact integer arithmetic (the library computes in floating point and    *)
(* may land one intensity lower at a few values).                          *)

Clamp(v) == IF v < 0 THEN 0 ELSE IF v > 255 THEN 255 ELSE v

\* image.clone().grayscale(): 0.2126 r + 0.7152 g + 0.0722 b, truncated
JimpGrayscale(v) == (2126 * v + 7152 * v + 722 * v) \div 10000

\* image.clone().contrast(val), factor = (val + 1) / (1 - val) = num/den:
\* floor(factor * (v - 127) + 127), clamped
JimpContrast(v, num, den) == Clamp(((num * (v - 127)) \div den) + 127)

\* image.clone().brightness(val), val = tenths/10:
\* v * (1 + val) for val < 0, v + (255 - v) * val otherwise, truncated
JimpBrightness(v, tenths) ==
    IF tenths < 0 THEN (v * (10 + tenths)) \div 10
    ELSE v + (((255 - v) * tenths) \div 10)

\* image.clone().invert()
JimpInvert(v) == 255 - v

ApproachNames ==
    <<"original", "grayscale", "high-contrast", "low-contrast", "bright", "dark", "inverted">>

ApproachCount == Len(ApproachNames)

\* approaches[i].image for i = 0..6, per pixel
ApproachPixel(i, v) ==
    CASE i = 0 -> v
      [] i = 1 -> JimpGrayscale(v)
      [] i = 2 -> JimpContrast(v, 18, 2)
      [] i = 3 -> JimpContrast(v, 7, 13)
      [] i = 4 -> JimpBrightness(v, 3)
      [] i = 5 -> JimpBrightness(v, -3)
      [] i = 6 -> JimpInvert(v)

Approach(i, image) ==
    [y \in 1..Height(image) |-> [x \in 1..Width(image) |-> ApproachPixel(i, image[y][x])]]

\* Jimp images are references to buffers: `heap` is the buffers allocated so
\* far, heap[1] the loaded image.

\* clone() handing back the image it was called on
CloneShared(heap, ref) == [heap |-> heap, ref |-> ref]

\* image.clone(): a new buffer with the pixels of heap[ref]
Clone(heap, ref) == [heap |-> Append(heap, heap[ref]), ref |-> Len(heap) + 1]

RECURSIVE ApproachesLoop(_, _, _)
\* the entries of `approaches` after the first: image.clone() and then the
\* transform, which writes the buffer it is called on and returns it
ApproachesLoop(heap, refs, i) ==
    IF i >= ApproachCount THEN [heap |-> heap, refs |-> refs]
    ELSE LET Entry(cloned) ==
                 ApproachesLoop([cloned.heap EXCEPT ![cloned.ref] = Approach(i, cloned.heap[cloned.ref])],
                                Append(refs, cloned.ref), i + 1)
         IN  Apply(Entry, Clone(heap, 1))

\* const approaches = [{ name: 'original', image: image }, ...]
Approaches(image) == ApproachesLoop(<<image>>, <<1>>, 1)

NoApproaches == [heap |-> <<>>, refs |-> <<>>]

RECURSIVE ApproachLoop(_, _)
ApproachLoop(i, image) ==
    IF i >= ApproachCount THEN Null
    ELSE IF decodeBarcodeFromImage(Approach(i, image)) # Null
         THEN decodeBarcodeFromImage(Approach(i, image))
    ELSE ApproachLoop(i + 1, image)

decodeTraditionalBarcode(image) == ApproachLoop(0, image)

\* a scanner that makes no QR attempt
scanQRCodeSkipped(qr) == Null

\* qrCode?.data || null, on what jsQR reports for the bitmap
scanQRCode(qr) == IF qr.found /\ qr.data # <<>> THEN qr.data ELSE Null

----------------------------------------------------------------------------
(* Inputs: scan lines and images.                                          *)
(*                                                                         *)
(* A scan line is drawn as runs of light and dark pixels.  The lines of    *)
(* LineCatalogue open with a light run whose first pixels are a mid grey,  *)
(* so that the line has three intensities; ExactLine draws a symbol in     *)
(* pure black and white, ModulePx pixels per module.                       *)

MaxHeight == 3

ModulePx == 1

QuietModules == 9

Run(level, n) == [i \in 1..n |-> level]

RECURSIVE Alternate(_, _, _)
\* runs of the given widths, alternately of intensity a and b
Alternate(widths, a, b) ==
    IF widths = <<>> THEN <<>>
    ELSE Run(a, Head(widths)) \o Alternate(Tail(widths), b, a)

BarLine(first, inner, last) ==
    Run(100, 2) \o Run(255, first - 2) \o Alternate(inner \o <<last>>, 0, 255)

UniformLine == Run(128, 30)

AlternatingLine == BarLine(3, Run(1, 25), 2)

Code5Line == BarLine(3, <<2, 1, 1, 1, 1, 1, 2, 2, 2>> \o Run(1, 11), 3)

Code4Line == BarLine(3, <<2, 1, 1, 1, 2, 1, 1, 2, 2>> \o Run(1, 11), 3)

InvertedLine == [x \in 1..Len(Code4Line) |-> 255 - Code4Line[x]]

FewLine == BarLine(3, Run(2, 12), 3)

LineCatalogue == <<UniformLine, AlternatingLine, Code5Line, InvertedLine, FewLine>>

\* EAN-13 symbology (GS1): G codes mirror the R codes; the first digit
\* selects the L/G parity of the six left digits.
Reverse(s) == [i \in 1..Len(s) |-> s[Len(s) + 1 - i]]

EAN13_PARITY ==
    << <<0, 0, 0, 0, 0, 0>>, <<0, 0, 1, 0, 1, 1>>, <<0, 0, 1, 1, 0, 1>>,
       <<0, 0, 1, 1, 1, 0>>, <<0, 1, 0, 0, 1, 1>>, <<0, 1, 1, 0, 0, 1>>,
       <<0, 1, 1, 1, 0, 0>>, <<0, 1, 0, 1, 0, 1>>, <<0, 1, 0, 1, 1, 0>>,
       <<0, 1, 1, 0, 1, 0>> >>

EncodeEAN13(digits) ==
    LET d(i) == ParseInt(digits[i])
        parity == EAN13_PARITY[d(1) + 1]
        left(i) == IF parity[i] = 0 THEN EAN13_LEFT_PATTERNS[d(i + 1) + 1]
                   ELSE Reverse(EAN13_RIGHT_PATTERNS[d(i + 1) + 1])
        right(i) == EAN13_RIGHT_PATTERNS[d(i + 7) + 1]
    IN  <<1, 0, 1>> \o Concat([i \in 1..6 |-> left(i)]) \o <<0, 1, 0, 1, 0>>
            \o Concat([i \in 1..6 |-> right(i)]) \o <<1, 0, 1>>

\* black bars on white, quiet zones on both sides
ExactLine(modules) ==
    LET quiet == QuietModules * ModulePx
        bars == Len(modules) * ModulePx
    IN  [x \in 1..(quiet + bars + quiet) |->
           IF x <= quiet \/ x > quiet + bars THEN 255
           ELSE IF modules[((x - quiet - 1) \div ModulePx) + 1] = 1 THEN 0 ELSE 255]

TestBarcode == <<"5", "9", "0", "1", "2", "3", "4", "1", "2", "3", "4", "5", "7">>

ExactEAN13Image == [y \in 1..MaxHeight |-> ExactLine(EncodeEAN13(TestBarcode))]

CatalogueImages ==
    UNION {{[y \in 1..h |-> LineCatalogue[rows[y]]] : rows \in [1..h -> 1..Len(LineCatalogue)]}
             : h \in 1..MaxHeight}

GrayLevels == {0, 100, 255}

\* images of one gray intensity
UniformImages == {[y \in 1..h |-> Run(g, 30)] : g \in GrayLevels, h \in 1..MaxHeight}

Images == CatalogueImages \cup {ExactEAN13Image} \cup UniformImages

\* what jsQR reports for a bitmap: nothing, or a code and its data
QRReadings ==
    {[found |-> FALSE, data |-> <<>>],
     [found |-> TRUE, data |-> <<>>],
     [found |-> TRUE, data |-> <<"H", "E", "L", "L", "O">>],
     [found |-> TRUE, data |-> <<"4", "0", "0", "6", "3", "8", "1", "3", "3", "3", "9", "3", "1">>]}

\* bytes that Jimp cannot read as an image
UnreadableBuffer == [decodable |-> FALSE, pixels |-> <<>>, qr |-> [found |-> FALSE, data |-> <<>>]]

ImageBuffers ==
    {UnreadableBuffer} \cup
    {[decodable |-> TRUE, pixels |-> img, qr |-> q] : img \in Images, q \in QRReadings}

----------------------------------------------------------------------------
(* One request.  `entry` is the code that receives the upload:             *)
(* RealBarcodeDecoder.scanFromImageBuffer, SimpleBarcodeScanner.           *)
(* scanFromImageBuffer, or the POST /api/scan-image handler.               *)

VARIABLES
    entry,             \* which scanner or handler serves the request
    imageBuffer,       \* the uploaded bytes: readable or not, the bitmap, jsQR's reading
    pc,                \* position in scanFromImageBuffer
    image,             \* image.bitmap after Jimp.read
    debugInfo,         \* the debugInfo array of scanFromImageBuffer
    approachIdx,       \* index into `approaches` of decodeTraditionalBarcode
    bestLine,          \* bestLine of decodeBarcodeFromImage
    normalizedWidths,  \* normalizedWidths of decodeBarcodeFromLine
    formatIdx,         \* i of the loop over `formats`
    calls,             \* the format decoders invoked so far, in order
    result,            \* the BarcodeScanResult returned
    scannedItems,      \* the server's item list
    response,          \* the HTTP response of the handler
    thresholdIdx,      \* i of the loop over `thresholds` (ImprovedBarcodeScanner)
    extracted,         \* what a line or format function called on its own returned
    argument,          \* the function called on its own and its argument
    other,             \* the locals of a second call suspended at an await
    approaches,        \* the buffers of decodeTraditionalBarcode and its `approaches` array
    clock              \* Date.now() of the server process

vars ==
    <<entry, imageBuffer, pc, image, debugInfo, approachIdx, bestLine,
      normalizedWidths, formatIdx, calls, result, scannedItems, response,
      thresholdIdx, extracted, argument, other, approaches, clock>>

\* the variables only the line and format functions use
lineVars == <<thresholdIdx, extracted, argument, other, clock>>

Entries == {"RealBarcodeDecoder", "SimpleBarcodeScanner", "POST /api/scan-image"}

NoResult == [success |-> FALSE, barcode |-> Null, error |-> "", debugInfo |-> <<>>]

NoResponse == [status |-> 0, error |-> "", data |-> <<>>]

\* no function called on its own
NoArgument == [function |-> "", value |-> <<>>]

\* no second call
NoCall == [pc |-> "done"]

\* the image line numbered by the calls already served
ImageInfoNumbered(bitmap) ==
    <<"Image", Width(bitmap), Height(bitmap), IF other.pc = "done" THEN 2 ELSE 1>>

\* `Image: ${width}x${height}`
ImageInfo(bitmap) == <<"Image", Width(bitmap), Height(bitmap)>>

NoBarcodeError == "No barcode detected. Please ensure the barcode is clear and well-lit."

\* the rejection that would escape without the catch block
UncaughtRejection ==
    [success |-> FALSE, barcode |-> Null, error |-> "unhandled rejection", debugInfo |-> <<"Error">>]

\* the return of the catch block
ProcessingFailure ==
    [success |-> FALSE, barcode |-> Null, error |-> "Failed to process image",
     debugInfo |-> <<"Error">>]

QRSuccess(qrResult) ==
    [success |-> TRUE, barcode |-> qrResult, error |-> "", debugInfo |-> <<"QR Code detected", qrResult>>]

BarcodeSuccess(barcodeResult, info) ==
    [success |-> TRUE, barcode |-> barcodeResult, error |-> "", debugInfo |-> info]

\* the demonstration fallback in place of the failure result
NoBarcodeDemo(info) ==
    [success |-> TRUE, barcode |-> <<"5", "9", "0", "1", "2", "3", "4", "1", "2", "3", "4", "5", "7">>,
     error |-> "", debugInfo |-> info]

NoBarcodeFailure(info) ==
    [success |-> FALSE, barcode |-> Null, error |-> NoBarcodeError, debugInfo |-> info]

Init ==
    /\ entry \in Entries
    /\ imageBuffer \in ImageBuffers
    /\ pc = "Jimp.read"
    /\ image = <<>>
    /\ debugInfo = <<>>
    /\ approachIdx = 0
    /\ bestLine = <<>>
    /\ normalizedWidths = <<>>
    /\ formatIdx = 0
    /\ calls = <<>>
    /\ result = NoResult
    /\ scannedItems = <<>>
    /\ response = NoResponse
    /\ thresholdIdx = 0
    /\ extracted = Null
    /\ argument = NoArgument
    /\ other = NoCall
    /\ approaches = NoApproaches
    /\ clock = 1

Real == entry = "RealBarcodeDecoder"

\* const image = await Jimp.read(imageBuffer), and the catch block
ReadImage ==
    /\ Real /\ pc = "Jimp.read"
    /\ IF imageBuffer.decodable
       THEN /\ image' = imageBuffer.pixels
            /\ debugInfo' = ImageInfo(imageBuffer.pixels)
            /\ pc' = "scanQRCode"
            /\ UNCHANGED result
       ELSE /\ result' = ProcessingFailure
            /\ pc' = "done"
            /\ UNCHANGED <<image, debugInfo>>
    /\ UNCHANGED <<entry, imageBuffer, approachIdx, bestLine, normalizedWidths,
                   formatIdx, calls, scannedItems, response, lineVars, approaches>>

\* const qrResult = await this.scanQRCode(image); if (qrResult) return ...;
\* then decodeTraditionalBarcode up to its loop: the approaches array
ScanQR ==
    /\ Real /\ pc = "scanQRCode"
    /\ IF scanQRCode(imageBuffer.qr) # Null
       THEN /\ result' = QRSuccess(scanQRCode(imageBuffer.qr))
            /\ pc' = "done"
            /\ UNCHANGED <<image, approaches>>
       ELSE /\ \E built \in {Approaches(image)} :
                   /\ approaches' = built
                   /\ image' = built.heap[1]
            /\ pc' = "decodeBarcodeFromImage"
            /\ UNCHANGED result
    /\ UNCHANGED <<entry, imageBuffer, debugInfo, approachIdx, bestLine,
                   normalizedWidths, formatIdx, calls, scannedItems, response, lineVars>>

\* decodeBarcodeFromImage returned null for approaches[approachIdx]: the next
\* approach, or after the last the failure result of scanFromImageBuffer
NextApproach ==
    IF approachIdx + 1 < ApproachCount
    THEN /\ approachIdx' = approachIdx + 1
         /\ pc' = "decodeBarcodeFromImage"
         /\ UNCHANGED result
    ELSE /\ result' = NoBarcodeFailure(debugInfo)
         /\ pc' = "done"
         /\ UNCHANGED approachIdx

\* decodeBarcodeFromImage up to the choice of bestLine
SelectBestLine ==
    /\ Real /\ pc = "decodeBarcodeFromImage"
    /\ \E best \in {BestLine(approaches.heap[approaches.refs[approachIdx + 1]])} :
           IF NoGoodLine(best)
           THEN NextApproach /\ UNCHANGED bestLine
           ELSE /\ bestLine' = best.line
                /\ pc' = "decodeBarcodeFromLine"
                /\ UNCHANGED <<approachIdx, result>>
    /\ UNCHANGED <<entry, imageBuffer, image, debugInfo, normalizedWidths,
                   formatIdx, calls, scannedItems, response, lineVars, approaches>>

\* decodeBarcodeFromLine up to the loop over the formats
MeasureLine ==
    /\ Real /\ pc = "decodeBarcodeFromLine"
    /\ \E transitions \in {TransitionsOf(bestLine)} :
           IF Len(transitions) < MinTransitions
           THEN NextApproach /\ UNCHANGED <<normalizedWidths, formatIdx>>
           ELSE /\ normalizedWidths' = NormalizeWidths(BarWidths(transitions))
                /\ formatIdx' = 0
                /\ pc' = "formats"
                /\ UNCHANGED <<approachIdx, result>>
    /\ UNCHANGED <<entry, imageBuffer, image, debugInfo, bestLine, calls,
                   scannedItems, response, lineVars, approaches>>

\* one iteration of the loop over the formats: const result = formats[i]()
TryFormat ==
    /\ Real /\ pc = "formats"
    /\ \E returned \in {Format(formatIdx, normalizedWidths)} :
           /\ calls' = Append(calls, [approach |-> approachIdx, format |-> formatIdx,
                                      widths |-> normalizedWidths, returned |-> returned])
           /\ IF returned # Null
              THEN /\ result' = BarcodeSuccess(returned, debugInfo)
                   /\ pc' = "done"
                   /\ UNCHANGED <<approachIdx, formatIdx>>
              ELSE IF formatIdx + 1 < FormatCount
              THEN /\ formatIdx' = formatIdx + 1
                   /\ UNCHANGED <<pc, approachIdx, result>>
              ELSE NextApproach /\ UNCHANGED formatIdx
    /\ UNCHANGED <<entry, imageBuffer, image, debugInfo, bestLine, normalizedWidths,
                   scannedItems, response, lineVars, approaches>>

----------------------------------------------------------------------------
(* SimpleBarcodeScanner                                                    *)

\* Math.round(sum / line.length)
MeanThreshold(line) == (2 * SumOf(line) + Len(line)) \div (2 * Len(line))

DemoBarcode == <<"5", "0", "1", "2", "3", "4", "5", "6", "7", "8", "9", "0", "0">>

\* SimpleBarcodeScanner.analyzeLine
analyzeLine(line) ==
    LET barcode(threshold) ==
            LET transitions == Len(FindTransitions(Binarize(line, threshold)))
            IN  IF transitions > 20 /\ transitions < 200 THEN DemoBarcode ELSE Null
    IN  Apply(barcode, MeanThreshold(line))

RECURSIVE SimpleLineLoop(_, _, _)
\* for (y = from; y < to; y += 2)
SimpleLineLoop(grayscale, y, to) ==
    LET Rest(barcode) == IF barcode # Null THEN barcode ELSE SimpleLineLoop(grayscale, y + 2, to)
    IN  IF y >= to THEN Null ELSE Apply(Rest, analyzeLine(At(grayscale, y)))

scanSimpleBarcode(bitmap) ==
    SimpleLineLoop(GrayData(Approach(1, bitmap)),
                   (3 * Height(bitmap)) \div 10, (7 * Height(bitmap)) \div 10)

\* SimpleBarcodeScanner.scanFromImageBuffer, whole
SimpleScan ==
    /\ entry = "SimpleBarcodeScanner" /\ pc = "Jimp.read"
    /\ IF ~imageBuffer.decodable
       THEN result' = ProcessingFailure /\ UNCHANGED <<image, debugInfo>>
       ELSE /\ image' = imageBuffer.pixels
            /\ debugInfo' = ImageInfo(imageBuffer.pixels)
            /\ IF scanQRCode(imageBuffer.qr) # Null
               THEN result' = QRSuccess(scanQRCode(imageBuffer.qr))
               ELSE \E barcodeResult \in {scanSimpleBarcode(imageBuffer.pixels)} :
                      IF barcodeResult # Null
                      THEN result' = BarcodeSuccess(barcodeResult, ImageInfo(imageBuffer.pixels))
                      ELSE result' = BarcodeSuccess(TestBarcode,
                                                    <<"Demo mode - no real barcode detected">>)
    /\ pc' = "done"
    /\ UNCHANGED <<entry, imageBuffer, approachIdx, bestLine, normalizedWidths,
                   formatIdx, calls, scannedItems, response, lineVars, approaches>>

----------------------------------------------------------------------------
(* The server (index.ts)                                                   *)

MaxClock == 2

IsDigit(c) == \E i \in 1..10 : DigitChars[i] = c

\* the length test on the string as given, nothing removed
validateBarcodeUnstripped(barcode) == Len(barcode) >= 8 /\ Len(barcode) <= 20

\* barcode.replace(/\D/g, ''), then the length test
validateBarcode(barcode) ==
    LET numericBarcode == SelectSeq(barcode, IsDigit)
    IN  Len(numericBarcode) >= 8 /\ Len(numericBarcode) <= 20

\* prices in cents
productDatabase ==
    << [barcode |-> TestBarcode, name |-> "Organic Whole Milk", price |-> 499],
       [barcode |-> DemoBarcode, name |-> "Whole Wheat Bread", price |-> 349],
       [barcode |-> <<"1", "2", "3", "4", "5", "6", "7", "8", "9", "0", "1", "2", "8">>,
        name |-> "Spring Water 1L", price |-> 125],
       [barcode |-> <<"7", "8", "9", "1", "2", "3", "4", "5", "6", "7", "8", "9", "5">>,
        name |-> "Free-Range Eggs (Dozen)", price |-> 575],
       [barcode |-> <<"9", "8", "2", "7", "3", "4", "8", "7", "2", "3", "4", "0", "0">>,
        name |-> "Java Programming Book", price |-> 4999] >>

DefaultProduct == [name |-> "Unknown Product", price |-> 0]

\* productDatabase[barcode] || productDatabase["DEFAULT"]
Product(barcode) ==
    LET hits == {i \in 1..Len(productDatabase) : productDatabase[i].barcode = barcode}
    IN  IF hits = {} THEN DefaultProduct
        ELSE [name |-> productDatabase[Min(hits)].name, price |-> productDatabase[Min(hits)].price]

NewItem(now, barcode) ==
    [id |-> now, barcode |-> barcode, name |-> Product(barcode).name,
     price |-> Product(barcode).price, timestamp |-> now]

\* the scanResult literal of POST /api/scan-image
ScanImageResult ==
    [success |-> TRUE, barcode |-> TestBarcode, error |-> "",
     debugInfo |-> <<"Frontend detection - backend fallback">>]

\* POST /api/scan-image, whole; hasFile is req.file, now is Date.now()
PostScanImage ==
    /\ entry = "POST /api/scan-image" /\ pc = "Jimp.read"
    /\ \E hasFile \in BOOLEAN, now \in 1..MaxClock :
         IF ~hasFile
         THEN /\ response' = [status |-> 400, error |-> "No image file provided", data |-> <<>>]
              /\ UNCHANGED <<result, scannedItems>>
         ELSE /\ result' = ScanImageResult
              /\ IF ~ScanImageResult.success \/ ScanImageResult.barcode = Null
                 THEN /\ response' = [status |-> 400, error |-> "No barcode found in image",
                                      data |-> <<>>]
                      /\ UNCHANGED scannedItems
                 ELSE IF ~validateBarcode(ScanImageResult.barcode)
                 THEN /\ response' = [status |-> 400, error |-> "Invalid barcode format",
                                      data |-> <<>>]
                      /\ UNCHANGED scannedItems
                 ELSE /\ scannedItems' = Append(scannedItems, NewItem(now, ScanImageResult.barcode))
                      /\ response' = [status |-> 201, error |-> "",
                                      data |-> NewItem(now, ScanImageResult.barcode)]
    /\ pc' = "done"
    /\ UNCHANGED <<entry, imageBuffer, image, debugInfo, approachIdx, bestLine,
                   normalizedWidths, formatIdx, calls, lineVars, approaches>>

----------------------------------------------------------------------------

Next ==
    \/ ReadImage
    \/ ScanQR
    \/ SelectBestLine
    \/ MeasureLine
    \/ TryFormat
    \/ SimpleScan
    \/ PostScanImage

Spec == Init /\ [][Next]_vars

\* a request that has started runs to its return
FairSpec == Spec /\ WF_vars(Next)

----------------------------------------------------------------------------
(* Properties of a request                                                 *)

Returned == pc = "done"

QRPayload == imageBuffer.qr.found /\ imageBuffer.qr.data # <<>>

\* the rows y with floor(0.2 * height) <= y < floor(0.8 * height)
ScanBand(bitmap) == {y \in 0..(Height(bitmap) - 1) : BandStart(Height(bitmap)) <= y /\ y < BandEnd(Height(bitmap))}

IsFailure(r, error) == ~r.success /\ r.barcode = Null /\ r.error = error

\* C1: scanFromImageBuffer of RealBarcodeDecoder never throws: what it
\* returns is a success with a barcode or one of its two typed failures, and
\* for bytes that are not an image it is the failure 'Failed to process
\* image' with no barcode.
C1_NeverThrows ==
    (Real /\ Returned) =>
        /\ \/ result.success /\ result.barcode # Null
           \/ IsFailure(result, "Failed to process image")
           \/ IsFailure(result, NoBarcodeError)
        /\ ~imageBuffer.decodable => IsFailure(result, "Failed to process image")

C1_Witness ==
    /\ Real /\ Returned /\ ~imageBuffer.decodable
    /\ IsFailure(result, "Failed to process image")

\* C2: the QR attempt comes first and on the unmodified image; when it
\* yields a payload the result is a success with exactly that payload, and
\* no transform, line or format decoder of the 1-D path is evaluated.
C2_QRFirst ==
    (Real /\ imageBuffer.decodable /\ QRPayload) =>
        /\ pc \in {"Jimp.read", "scanQRCode", "done"}
        /\ approachIdx = 0 /\ bestLine = <<>> /\ normalizedWidths = <<>> /\ calls = <<>>
        /\ Returned => /\ result.success
                       /\ result.barcode = imageBuffer.qr.data
                       /\ image = imageBuffer.pixels

\* a QR payload returned for an image whose 1-D path would decode another
C2_Witness ==
    /\ Real /\ Returned /\ QRPayload
    /\ result.success /\ result.barcode = imageBuffer.qr.data
    /\ decodeTraditionalBarcode(image) # Null
    /\ decodeTraditionalBarcode(image) # imageBuffer.qr.data

\* C3: an image whose rows are the exact, noise-free rendering of the
\* EAN-13 symbol 5901234123457 (dark bars on a light ground, every module
\* ModulePx pixels) is decoded by the 1-D path to '5901234123457'.
C3_ExactEAN13Decodes ==
    (Real /\ Returned /\ image = ExactEAN13Image /\ ~QRPayload) =>
        result.success /\ result.barcode = TestBarcode

\* C4: scanFromImageBuffer of RealBarcodeDecoder always returns, and when
\* the QR attempt yields nothing and none of the seven transforms decodes,
\* it returns the failure 'No barcode detected...' with no barcode.
C4_TerminatesNoBarcode ==
    /\ <>Returned
    /\ []((Real /\ Returned /\ imageBuffer.decodable /\ ~QRPayload
             /\ \A i \in 0..(ApproachCount - 1) :
                   decodeBarcodeFromImage(Approach(i, imageBuffer.pixels)) = Null)
          => IsFailure(result, NoBarcodeError))

\* every transform tried and the failure returned
C4_Witness ==
    /\ Real /\ Returned /\ ~QRPayload
    /\ approachIdx = ApproachCount - 1
    /\ IsFailure(result, NoBarcodeError)

\* C5: no entry point and no endpoint reports a success when neither the
\* QR decode nor a 1-D decode of the image produced a payload.
C5_NoFabrication ==
    (Returned /\ (~imageBuffer.decodable
                    \/ (~QRPayload /\ decodeTraditionalBarcode(imageBuffer.pixels) = Null))) =>
        ~result.success /\ response.status # 201 /\ scannedItems = <<>>

\* C6: if the QR attempt yields nothing and some transform has some row of
\* the scan band whose line decodeBarcodeFromLine decodes, the scan succeeds.
C6_SearchComplete ==
    (Real /\ Returned /\ imageBuffer.decodable /\ ~QRPayload
       /\ \E i \in 0..(ApproachCount - 1), y \in ScanBand(image) :
             decodeBarcodeFromLine(At(GrayData(Approach(i, image)), y)) # Null)
    => result.success

\* the decoder that stands at position i of `formats`
FormatAt(i, widths) ==
    CASE i = 0 -> decodeEAN13(widths)
      [] i = 1 -> decodeEAN8(widths)
      [] i = 2 -> decodeCode128(widths)
      [] i = 3 -> decodeUPC(widths)

LastOfApproach(k) == k = Len(calls) \/ calls[k + 1].approach # calls[k].approach

\* C9: on one line the decoders run in the order EAN-13, EAN-8, Code 128,
\* UPC on the same normalised widths; the first non-null result is returned
\* and ends the request; a decoder that returns null is followed by the next
\* one, up to the last.
C9_DecoderOrder ==
    /\ \A k \in 1..Len(calls) :
         /\ calls[k].returned = FormatAt(calls[k].format, calls[k].widths)
         /\ calls[k].format =
              IF k = 1 \/ calls[k - 1].approach # calls[k].approach THEN 0
              ELSE calls[k - 1].format + 1
         /\ (k > 1 /\ calls[k - 1].approach = calls[k].approach)
              => calls[k].widths = calls[k - 1].widths
         /\ k < Len(calls) => calls[k].returned = Null
         /\ (calls[k].returned = Null /\ LastOfApproach(k) /\ (k < Len(calls) \/ pc # "formats"))
              => calls[k].format = FormatCount - 1
    /\ (calls # <<>> /\ calls[Len(calls)].returned # Null)
         => Returned /\ result.success /\ result.barcode = calls[Len(calls)].returned

\* EAN-13 and EAN-8 returned null, Code 128 decoded and was returned
C9_Witness ==
    /\ Real /\ Returned /\ Len(calls) >= 3
    /\ calls[Len(calls)].format = 2
    /\ calls[Len(calls) - 1].format = 1 /\ calls[Len(calls) - 1].returned = Null
    /\ calls[Len(calls) - 2].format = 0 /\ calls[Len(calls) - 2].returned = Null
    /\ result.barcode = calls[Len(calls)].returned
    /\ \E k \in 1..Len(calls) : calls[k].format = 3

\* C10: a payload returned from the 1-D path has between 8 and 20 digits
\* and passes validateBarcode.
C10_PayloadLength ==
    (Real /\ Returned /\ result.success /\ ~QRPayload) =>
        /\ \A i \in 1..Len(result.barcode) : IsDigit(result.barcode[i])
        /\ Len(result.barcode) >= 8 /\ Len(result.barcode) <= 20
        /\ validateBarcode(result.barcode)

----------------------------------------------------------------------------
(* RealBarcodeScanner and ImprovedBarcodeScanner: the format decoders.     *)
(* The two classes share the code of these functions except for the digit  *)
(* lookup, the least length for EAN-13 and the generic decoder; `scanner`  *)
(* says whose code runs.                                                   *)

RealScanner == "RealBarcodeScanner"

ImprovedScanner == "ImprovedBarcodeScanner"

\* String.prototype.includes
Includes(str, key) ==
    \E i \in 0..(Len(str) - Len(key)) : SubSeq(str, i + 1, i + Len(key)) = key

\* the `patterns` object of decodeDigitPattern as Object.entries visits it:
\* its keys are integer-like, so in ascending numeric order
DigitPatterns ==
    << [key |-> <<"1", "1", "1", "4">>, value |-> "6"],
       [key |-> <<"1", "1", "3", "2">>, value |-> "4"],
       [key |-> <<"1", "2", "1", "3">>, value |-> "8"],
       [key |-> <<"1", "2", "3", "1">>, value |-> "5"],
       [key |-> <<"1", "3", "1", "2">>, value |-> "7"],
       [key |-> <<"1", "4", "1", "1">>, value |-> "3"],
       [key |-> <<"2", "1", "2", "2">>, value |-> "2"],
       [key |-> <<"2", "2", "2", "1">>, value |-> "1"],
       [key |-> <<"3", "1", "1", "2">>, value |-> "9"],
       [key |-> <<"3", "2", "1", "1">>, value |-> "0"] >>

\* RealBarcodeScanner.patternSimilarity(pattern1, pattern2) > 0.7
SimilarityAbove70(pattern1, pattern2) ==
    LET Similar(p1, p2) ==
            LET minLength == IF Len(p1) < Len(p2) THEN Len(p1) ELSE Len(p2)
            IN  /\ minLength > 0
                /\ 10 * Cardinality({i \in 1..minLength : p1[i] = p2[i]}) > 7 * minLength
    IN  Apply2(Similar, pattern1, pattern2)

\* ImprovedBarcodeScanner.patternMatch: matches >= pattern1.length * 0.7
patternMatch70(pattern1, pattern2) ==
    LET Match(p1, p2) ==
            /\ Len(p1) = Len(p2)
            /\ 10 * Cardinality({i \in 1..Len(p1) : p1[i] = p2[i]}) >= 7 * Len(p1)
    IN  Apply2(Match, pattern1, pattern2)

decodeDigitPattern(scanner, pattern) ==
    LET First(hits) == IF hits = {} THEN Null ELSE <<DigitPatterns[Min(hits)].value>>
        Lookup(patternStr) ==
            Apply(First, {k \in 1..Len(DigitPatterns) :
                            IF scanner = RealScanner
                            THEN \/ Includes(patternStr, DigitPatterns[k].key)
                                 \/ SimilarityAbove70(patternStr, DigitPatterns[k].key)
                            ELSE patternMatch70(patternStr, DigitPatterns[k].key)})
    IN  Apply(Lookup, Join(pattern))

RECURSIVE ExtractDigitsLoop(_, _, _, _, _)
\* the loop of extractDigitsFromPattern / extractDigits: both an incomplete
\* group and an unmatched group break it
ExtractDigitsLoop(scanner, widths, currentIndex, remaining, digits) ==
    IF remaining = 0 \/ currentIndex + 7 > Len(widths) THEN digits
    ELSE LET Rest(digit, index) ==
                 IF digit = Null THEN digits
                 ELSE ExtractDigitsLoop(scanner, widths, index + 7, remaining - 1, digits \o digit)
         IN  Apply2(Rest, decodeDigitPattern(scanner, Slice(widths, currentIndex, currentIndex + 7)),
                    currentIndex)

\* extractDigitsFromPattern (RealBarcodeScanner), extractDigits (Improved)
extractDigits(scanner, widths, startIndex, digitCount) ==
    LET Complete(digits) == IF Len(digits) = digitCount THEN digits ELSE Null
    IN  Apply(Complete, ExtractDigitsLoop(scanner, widths, startIndex, digitCount, <<>>))

EAN13MinWidths(scanner) == IF scanner = RealScanner THEN 95 ELSE 59

\* decodeEAN13 (RealBarcodeScanner), decodeAsEAN13 (Improved)
decodeAsEAN13(scanner, widths) ==
    LET WithCheck(digits) ==
            IF digits # Null /\ Len(digits) = 12
            THEN digits \o calculateEAN13CheckDigit(digits)
            ELSE Null
        Digits(startIndex) ==
            IF startIndex = -1 THEN Null
            ELSE Apply(WithCheck, extractDigits(scanner, widths, startIndex + 3, 12))
    IN  IF Len(widths) < EAN13MinWidths(scanner) THEN Null
        ELSE Apply(Digits, FindStart(widths, 1, 0, 1, Len(widths) - 2))

\* decodeEAN8, decodeAsEAN8
decodeAsEAN8(scanner, widths) ==
    LET WithCheck(digits) ==
            IF digits # Null /\ Len(digits) = 7
            THEN digits \o calculateEAN8CheckDigit(digits)
            ELSE Null
    IN  IF Len(widths) < 67 THEN Null
        ELSE Apply(WithCheck, extractDigits(scanner, widths, 3, 7))

\* decodeCode128Character of both classes: the first key the string includes
Code128Keys ==
    << <<"2", "1", "1", "2", "1", "4">>, <<"2", "1", "1", "2", "3", "2">>,
       <<"2", "1", "1", "4", "1", "2">>, <<"2", "1", "1", "4", "3", "2">>,
       <<"2", "1", "2", "1", "1", "4">>, <<"2", "1", "2", "1", "3", "2">>,
       <<"2", "1", "2", "3", "1", "2">>, <<"2", "1", "2", "3", "3", "2">>,
       <<"2", "1", "4", "1", "1", "2">>, <<"2", "1", "4", "1", "3", "2">> >>

decodeCode128CharacterByKey(pattern) ==
    LET First(hits) == IF hits = {} THEN Null ELSE <<DigitChars[Min(hits)]>>
        Lookup(patternStr) ==
            Apply(First, {k \in 1..Len(Code128Keys) : Includes(patternStr, Code128Keys[k])})
    IN  Apply(Lookup, Join(pattern))

RECURSIVE Code128Loop11(_, _, _)
\* while (currentIndex < widths.length - 6), in groups of 11 widths
Code128Loop11(widths, currentIndex, data) ==
    IF ~(currentIndex < Len(widths) - 6) \/ currentIndex + 11 > Len(widths) THEN data
    ELSE LET Rest(char, index) ==
                 IF char = Null THEN data
                 ELSE Code128Loop11(widths, index + 11, data \o char)
         IN  Apply2(Rest, decodeCode128CharacterByKey(Slice(widths, currentIndex, currentIndex + 11)),
                    currentIndex)

\* decodeCode128, decodeAsCode128 (data.length > 0 ? data.join('') : null)
decodeAsCode128(widths) ==
    LET Data(startIndex) ==
            IF startIndex = -1 THEN Null ELSE Code128Loop11(widths, startIndex + 3, <<>>)
    IN  IF Len(widths) < 20 THEN Null
        ELSE Apply(Data, FindStart(widths, 2, 1, 1, Len(widths) - 3))

\* decodeUPC, decodeAsUPC
decodeAsUPC(scanner, widths) ==
    LET WithCheck(digits) ==
            IF digits # Null /\ Len(digits) = 11
            THEN digits \o calculateUPCACheckDigit(digits)
            ELSE Null
    IN  IF Len(widths) < 51 THEN Null
        ELSE Apply(WithCheck, extractDigits(scanner, widths, 3, 11))

\* decodeSimplePattern: avg < 1.5 -> '1', ..., avg < 9.5 -> '9', else '0'
decodeSimplePattern(pattern) ==
    LET Digit(sum) ==
            LET below == {k \in 1..9 : 2 * sum < (2 * k + 1) * Len(pattern)}
            IN  IF below = {} THEN <<"0">> ELSE <<DigitChars[Min(below) + 1]>>
    IN  Apply(Digit, SumOf(pattern))

\* extractSimpleDigits: for (i = 0; i < widths.length - 3; i += 2)
extractSimpleDigits(widths) ==
    LET Digits(starts) ==
            Concat([k \in 1..Cardinality(starts) |->
                      decodeSimplePattern(Slice(widths, 2 * (k - 1), 2 * (k - 1) + 4))])
        AtLeast8(digits) == IF Len(digits) >= 8 THEN digits ELSE Null
    IN  Apply(AtLeast8, Apply(Digits, {i \in 0..(Len(widths) - 4) : i % 2 = 0}))

\* ImprovedBarcodeScanner.decodeAsGeneric
decodeAsGeneric(widths) ==
    LET Simple(digits) ==
            IF digits # Null /\ Len(digits) >= 8 /\ Len(digits) <= 13 THEN digits ELSE Null
        Generic(pattern) ==
            IF Includes(pattern, <<"1", "1", "1">>) /\ Includes(pattern, <<"0", "0", "0">>)
            THEN Apply(Simple, extractSimpleDigits(widths))
            ELSE Null
    IN  IF Len(widths) < 20 THEN Null
        ELSE Apply(Generic, Join(Slice(widths, 0, IF Len(widths) < 50 THEN Len(widths) ELSE 50)))

\* RealBarcodeScanner.decodeBarcode: formats[i], i = 0..3
ScannerFormat(i, widths) ==
    CASE i = 0 -> decodeAsEAN13(RealScanner, widths)
      [] i = 1 -> decodeAsEAN8(RealScanner, widths)
      [] i = 2 -> decodeAsCode128(widths)
      [] i = 3 -> decodeAsUPC(RealScanner, widths)

\* ImprovedBarcodeScanner.decodeBarcodeFromTransitions: decoders[i], i = 0..4
Decoder(i, widths) ==
    CASE i = 0 -> decodeAsEAN13(ImprovedScanner, widths)
      [] i = 1 -> decodeAsEAN8(ImprovedScanner, widths)
      [] i = 2 -> decodeAsCode128(widths)
      [] i = 3 -> decodeAsUPC(ImprovedScanner, widths)
      [] i = 4 -> decodeAsGeneric(widths)

DecoderCount == 5

----------------------------------------------------------------------------
(* ImprovedBarcodeScanner: the four thresholds of extractBarcodeFromLine.  *)
(* The median of a line of even length may end in .5, so a threshold is    *)
(* kept as twice its value and a pixel compared as 2 * pixel < twice.      *)

calculateOtsuThreshold(line) == calculateThreshold(line)

\* Math.round(sum / line.length)
calculateMeanThreshold(line) == MeanThreshold(line)

\* twice calculateMedianThreshold; sorted[i] is the least intensity v with
\* more than i pixels <= v
MedianTwice(line) ==
    LET Sorted(i) ==
            Min({v \in {line[j] : j \in 1..Len(line)} :
                   Cardinality({j \in 1..Len(line) : line[j] <= v}) > i})
        Median(mid) ==
            IF Len(line) % 2 = 0 THEN Sorted(mid - 1) + Sorted(mid) ELSE 2 * Sorted(mid)
    IN  Apply(Median, Len(line) \div 2)

RECURSIVE SquareLevels(_, _, _)
\* sum + Math.pow(pixel - mean, 2), over the intensities that occur
SquareLevels(line, levels, mean) ==
    IF levels = {} THEN 0
    ELSE LET Term(t) ==
                 (t - mean) * (t - mean) * Cardinality({i \in 1..Len(line) : line[i] = t})
                 + SquareLevels(line, levels \ {t}, mean)
         IN  Apply(Term, Min(levels))

\* Math.round(mean - 0.5 * std) = mean - k for the least k >= 0 with
\* 2k + 1 >= std, that is (2k + 1)^2 * length >= the sum of squares
calculateAdaptiveThreshold(line) ==
    LET Rounded(mean, squares) ==
            mean - Min({k \in 0..128 : (2 * k + 1) * (2 * k + 1) * Len(line) >= squares})
        Threshold(mean) ==
            Apply2(Rounded, mean, SquareLevels(line, {line[i] : i \in 1..Len(line)}, mean))
    IN  Apply(Threshold, calculateMeanThreshold(line))

ThresholdCount == 4

\* twice thresholds[i], i = 0..3
ThresholdTwice(i, line) ==
    CASE i = 0 -> 2 * calculateOtsuThreshold(line)
      [] i = 1 -> 2 * calculateMeanThreshold(line)
      [] i = 2 -> MedianTwice(line)
      [] i = 3 -> 2 * calculateAdaptiveThreshold(line)

\* line.map(pixel => pixel < threshold ? 0 : 1)
BinarizeTwice(line, twice) == [i \in 1..Len(line) |-> IF 2 * line[i] < twice THEN 0 ELSE 1]

----------------------------------------------------------------------------
(* One scan line handed to the line function of each class:                *)
(* RealBarcodeDecoder.decodeBarcodeFromLine (MeasureLine and TryFormat     *)
(* above), RealBarcodeScanner.extractBarcodeFromLine and                   *)
(* ImprovedBarcodeScanner.extractBarcodeFromLine.                          *)

MaxBars == 24

\* a line of n dark bars two pixels wide
BarsLine(n) == BarLine(3, Run(2, n), 3)

LineInputs ==
    {LineCatalogue[i] : i \in 1..Len(LineCatalogue)}
        \cup {Code4Line, ExactLine(EncodeEAN13(TestBarcode))}
        \cup {BarsLine(n) : n \in 1..MaxBars}

LineEntries == {"RealBarcodeDecoder", RealScanner, ImprovedScanner}

\* decodeBarcodeFromImage hands decodeBarcodeFromLine only a line it scored
\* at 0.3 or more; the other two classes hand over every line they visit
InitLine ==
    /\ entry \in LineEntries
    /\ bestLine \in LineInputs
    /\ Real => ~NoGoodLine([found |-> TRUE, score |-> analyzeBarcodeLine(bestLine)])
    /\ pc = IF Real THEN "decodeBarcodeFromLine" ELSE "extractBarcodeFromLine"
    /\ imageBuffer = UnreadableBuffer
    /\ image = <<>>
    /\ debugInfo = <<>>
    /\ approachIdx = 0
    /\ normalizedWidths = <<>>
    /\ formatIdx = 0
    /\ calls = <<>>
    /\ result = NoResult
    /\ scannedItems = <<>>
    /\ response = NoResponse
    /\ thresholdIdx = 0
    /\ extracted = Null
    /\ argument = NoArgument
    /\ other = NoCall
    /\ approaches = NoApproaches
    /\ clock = 1

requestVars == <<entry, imageBuffer, image, debugInfo, approachIdx, bestLine, result,
                 scannedItems, response, argument, other, approaches, clock>>

\* RealBarcodeScanner.extractBarcodeFromLine, and decodeBarcode up to the
\* loop over the formats
ScannerMeasureLine ==
    /\ entry = RealScanner /\ pc = "extractBarcodeFromLine"
    /\ \E transitions \in {TransitionsOf(bestLine)} :
           IF Len(transitions) < 20 \/ Len(BarWidths(transitions)) < 20
           THEN /\ extracted' = Null
                /\ pc' = "returned"
                /\ UNCHANGED <<normalizedWidths, formatIdx>>
           ELSE /\ normalizedWidths' = NormalizeWidths(BarWidths(transitions))
                /\ formatIdx' = 0
                /\ pc' = "decodeBarcode"
                /\ UNCHANGED extracted
    /\ UNCHANGED <<requestVars, calls, thresholdIdx>>

\* one iteration of the loop over the formats of decodeBarcode
ScannerTryFormat ==
    /\ entry = RealScanner /\ pc = "decodeBarcode"
    /\ \E returned \in {ScannerFormat(formatIdx, normalizedWidths)} :
           /\ calls' = Append(calls, [approach |-> 0, format |-> formatIdx,
                                      widths |-> normalizedWidths, returned |-> returned])
           /\ IF returned # Null
              THEN extracted' = returned /\ pc' = "returned" /\ UNCHANGED formatIdx
              ELSE IF formatIdx + 1 < FormatCount
              THEN formatIdx' = formatIdx + 1 /\ UNCHANGED <<pc, extracted>>
              ELSE extracted' = Null /\ pc' = "returned" /\ UNCHANGED formatIdx
    /\ UNCHANGED <<requestVars, normalizedWidths, thresholdIdx>>

\* thresholds[thresholdIdx] gave no barcode: the next threshold, or null
NextThreshold ==
    IF thresholdIdx + 1 < ThresholdCount
    THEN /\ thresholdIdx' = thresholdIdx + 1
         /\ pc' = "extractBarcodeFromLine"
         /\ UNCHANGED extracted
    ELSE /\ extracted' = Null
         /\ pc' = "returned"
         /\ UNCHANGED thresholdIdx

\* ImprovedBarcodeScanner.extractBarcodeFromLine: one iteration of the loop
\* over the thresholds, and decodeBarcodeFromTransitions up to its decoders
ImprovedTryThreshold ==
    /\ entry = ImprovedScanner /\ pc = "extractBarcodeFromLine"
    /\ \E transitions \in
            {FindTransitions(BinarizeTwice(bestLine, ThresholdTwice(thresholdIdx, bestLine)))} :
           IF /\ Len(transitions) >= 10 /\ Len(transitions) <= 300
              /\ ~(Len(BarWidths(transitions)) < 10)
           THEN /\ normalizedWidths' = NormalizeWidths(BarWidths(transitions))
                /\ formatIdx' = 0
                /\ pc' = "decoders"
                /\ UNCHANGED <<thresholdIdx, extracted>>
           ELSE NextThreshold /\ UNCHANGED <<normalizedWidths, formatIdx>>
    /\ UNCHANGED <<requestVars, calls>>

\* one iteration of the loop over the decoders
ImprovedTryDecoder ==
    /\ entry = ImprovedScanner /\ pc = "decoders"
    /\ \E returned \in {Decoder(formatIdx, normalizedWidths)} :
           /\ calls' = Append(calls, [approach |-> thresholdIdx, format |-> formatIdx,
                                      widths |-> normalizedWidths, returned |-> returned])
           /\ IF returned # Null
              THEN extracted' = returned /\ pc' = "returned"
                   /\ UNCHANGED <<formatIdx, thresholdIdx>>
              ELSE IF formatIdx + 1 < DecoderCount
              THEN formatIdx' = formatIdx + 1 /\ UNCHANGED <<pc, extracted, thresholdIdx>>
              ELSE NextThreshold /\ UNCHANGED formatIdx
    /\ UNCHANGED <<requestVars, normalizedWidths>>

NextLine ==
    \/ MeasureLine
    \/ TryFormat
    \/ ScannerMeasureLine
    \/ ScannerTryFormat
    \/ ImprovedTryThreshold
    \/ ImprovedTryDecoder

SpecLine == InitLine /\ [][NextLine]_vars

\* C7: in RealBarcodeDecoder, RealBarcodeScanner and ImprovedBarcodeScanner
\* no symbology decoder is invoked for a binarized line with fewer than 20
\* transitions: every invocation is on the bar widths of 20 or more
\* transitions (one width fewer than there are transitions).
C7_FewTransitionsRejected ==
    \A k \in 1..Len(calls) : Len(calls[k].widths) + 1 >= 20

----------------------------------------------------------------------------
(* One format decoder of RealBarcodeDecoder applied to one width sequence. *)
(* The decoders compare the widths with 1,0,1 and 0,1,0,1,0 and look the   *)
(* groups of seven up in the module tables, so the sequences drawn are     *)
(* module sequences: start guard, six left groups, middle guard, six right *)
(* groups, one more right group that carries a check digit, end guard.     *)

SymbolData ==
    << <<"5", "9", "0", "1", "2", "3", "4", "1", "2", "3", "4", "5">>,
       <<"4", "0", "0", "6", "3", "8", "1", "3", "3", "3", "9", "3">>,
       <<"0", "0", "0", "0", "0", "0", "0", "0", "0", "0", "0", "0">>,
       <<"1", "2", "3", "4", "5", "6", "7", "8", "9", "0", "1", "2">>,
       <<"9", "7", "8", "0", "2", "0", "1", "3", "7", "9", "6", "2">> >>

MiddleGuards == {<<0, 1, 0, 1, 0>>, <<0, 1, 1, 1, 0>>}

\* the module sequence of 12 data digits and a check digit
SymbolWidths(data, middle, check) ==
    <<1, 0, 1>>
        \o Concat([i \in 1..6 |-> EAN13_LEFT_PATTERNS[ParseInt(data[i]) + 1]])
        \o middle
        \o Concat([i \in 1..6 |-> EAN13_RIGHT_PATTERNS[ParseInt(data[i + 6]) + 1]])
        \o EAN13_RIGHT_PATTERNS[check + 1]
        \o <<1, 0, 1>>

\* the module sequence of `left` digits, the middle guard, the remaining
\* digits of data and a check digit: 4 and 3 digits (EAN-8), 6 and 5 (UPC-A)
ShortSymbolWidths(data, left, check) ==
    <<1, 0, 1>>
        \o Concat([i \in 1..left |-> EAN13_LEFT_PATTERNS[ParseInt(data[i]) + 1]])
        \o <<0, 1, 0, 1, 0>>
        \o Concat([i \in 1..(Len(data) - left) |->
                      EAN13_RIGHT_PATTERNS[ParseInt(data[i + left]) + 1]])
        \o EAN13_RIGHT_PATTERNS[check + 1]
        \o <<1, 0, 1>>

\* the symbols, whole and cut one module short of each decoder's minimum
DecoderInputs ==
    LET symbols ==
            {SymbolWidths(SymbolData[d], middle, check) :
                d \in 1..Len(SymbolData), middle \in MiddleGuards, check \in 0..9}
              \cup {ShortSymbolWidths(SubSeq(SymbolData[d], 1, 7), 4, check) :
                        d \in 1..Len(SymbolData), check \in 0..9}
              \cup {ShortSymbolWidths(SubSeq(SymbolData[d], 1, 11), 6, check) :
                        d \in 1..Len(SymbolData), check \in 0..9}
    IN  symbols \cup {SubSeq(w, 1, Min({Len(w), n})) : w \in symbols, n \in {94, 66, 50}}

InitDecoders ==
    /\ entry = "RealBarcodeDecoder"
    /\ normalizedWidths \in DecoderInputs
    /\ formatIdx \in 0..(FormatCount - 1)
    /\ pc = "format"
    /\ imageBuffer = UnreadableBuffer
    /\ image = <<>>
    /\ debugInfo = <<>>
    /\ approachIdx = 0
    /\ bestLine = <<>>
    /\ calls = <<>>
    /\ result = NoResult
    /\ scannedItems = <<>>
    /\ response = NoResponse
    /\ thresholdIdx = 0
    /\ extracted = Null
    /\ argument = NoArgument
    /\ other = NoCall
    /\ approaches = NoApproaches
    /\ clock = 1

\* const result = formats[i]()
ApplyFormat ==
    /\ pc = "format"
    /\ \E returned \in {Format(formatIdx, normalizedWidths)} :
           /\ extracted' = returned
           /\ calls' = Append(calls, [approach |-> 0, format |-> formatIdx,
                                      widths |-> normalizedWidths, returned |-> returned])
    /\ pc' = "returned"
    /\ UNCHANGED <<requestVars, normalizedWidths, formatIdx, thresholdIdx>>

NextDecoders == ApplyFormat

SpecDecoders == InitDecoders /\ [][NextDecoders]_vars

\* where decodeEAN13 finds the start guard, and what it reads from there
GuardsMatch(widths) ==
    LET startIndex == FindStart(widths, 1, 0, 1, Len(widths) - 2)
    IN  /\ startIndex # -1
        /\ Slice(widths, startIndex + 45, startIndex + 50) = <<0, 1, 0, 1, 0>>

DataDigits(widths) ==
    LET startIndex == FindStart(widths, 1, 0, 1, Len(widths) - 2)
        left == extractEAN13LeftDigits(widths, startIndex + 3)
        right == extractEAN13RightDigits(widths, startIndex + 50)
    IN  IF Len(left) = 6 /\ Len(right) = 6 THEN left \o right ELSE Null

\* the digit of the group that follows the twelve data groups
EncodedCheckDigit(widths) ==
    LET startIndex == FindStart(widths, 1, 0, 1, Len(widths) - 2)
    IN  decodeEAN13RightDigit(Slice(widths, startIndex + 92, startIndex + 99))

\* C8: decodeEAN13 returns no result for a width sequence that matches the
\* start and middle guards and decodes to 12 data digits when the check digit
\* the sequence encodes differs from the one computed from those 12 digits.
C8_ChecksumRejected ==
    (/\ pc = "returned" /\ formatIdx = 0
     /\ GuardsMatch(normalizedWidths)
     /\ DataDigits(normalizedWidths) # Null
     /\ EncodedCheckDigit(normalizedWidths) # Null
     /\ EncodedCheckDigit(normalizedWidths)
            # calculateEAN13CheckDigit(DataDigits(normalizedWidths)))
    => extracted = Null

----------------------------------------------------------------------------
(* Functions called on their own: `argument` names the function and holds  *)
(* its argument, `extracted` receives what it returns.                     *)

MaxDigits == 22

MaxOthers == 3

OtherChars == <<"-", " ", "A">>

\* a payload of n digits and m other characters, the others placed at the
\* head, in the middle or at the tail
Payload(n, m, place) ==
    LET digits == [i \in 1..n |-> DigitChars[(i % 10) + 1]]
        others == [i \in 1..m |-> OtherChars[((i - 1) % Len(OtherChars)) + 1]]
    IN  CASE place = "head" -> others \o digits
          [] place = "middle" -> SubSeq(digits, 1, n \div 2) \o others \o SubSeq(digits, (n \div 2) + 1, n)
          [] place = "tail" -> digits \o others

Payloads ==
    {Payload(n, m, place) : n \in 0..MaxDigits, m \in 0..MaxOthers,
                            place \in {"head", "middle", "tail"}}

\* what every function call leaves alone
calleeFrame == <<requestVars, normalizedWidths, formatIdx, calls, thresholdIdx>>

\* RealBarcodeDecoder.validateBarcode(barcode)
CallValidateBarcode ==
    /\ pc = "call" /\ argument.function = "validateBarcode"
    /\ extracted' = validateBarcode(argument.value)
    /\ pc' = "returned"
    /\ UNCHANGED calleeFrame

HalfLen == 4

\* lines of two intensities lo < hi: half and half, alternating, and one
\* pixel of hi among lo and of lo among hi
TwoLevelLines ==
    UNION {{Run(pair[1], HalfLen) \o Run(pair[2], HalfLen),
            Run(pair[2], HalfLen) \o Run(pair[1], HalfLen),
            Alternate(Run(1, 2 * HalfLen), pair[1], pair[2]),
            Run(pair[1], 2 * HalfLen - 1) \o <<pair[2]>>,
            <<pair[1]>> \o Run(pair[2], 2 * HalfLen - 1)}
             : pair \in {<<30, 220>>, <<0, 255>>, <<100, 102>>, <<0, 2>>, <<253, 255>>}}

\* the first two statements of decodeBarcodeFromLine
CallCalculateThreshold ==
    /\ pc = "call" /\ argument.function = "calculateThreshold"
    /\ \E threshold \in {calculateThreshold(argument.value)} :
           extracted' = [threshold |-> threshold, binary |-> Binarize(argument.value, threshold)]
    /\ pc' = "returned"
    /\ UNCHANGED calleeFrame

\* 12-digit strings: the catalogue, each with every first digit
DataStrings ==
    {[SymbolData[d] EXCEPT ![1] = DigitChars[first + 1]] : d \in 1..Len(SymbolData), first \in 0..9}

CallDecodeEAN13 ==
    /\ pc = "call" /\ argument.function = "decodeEAN13"
    /\ extracted' = decodeEAN13(argument.value.modules)
    /\ pc' = "returned"
    /\ UNCHANGED calleeFrame

\* 12-digit strings: the catalogue, each with every digit at every position
CheckDigitData ==
    {[SymbolData[d] EXCEPT ![k] = DigitChars[c + 1]] :
        d \in 1..Len(SymbolData), k \in 1..Len(SymbolData[1]), c \in 0..9}

CallCalculateEAN13CheckDigit ==
    /\ pc = "call" /\ argument.function = "calculateEAN13CheckDigit"
    /\ extracted' = calculateEAN13CheckDigit(argument.value)
    /\ pc' = "returned"
    /\ UNCHANGED calleeFrame

CallCalculateEAN8CheckDigit ==
    /\ pc = "call" /\ argument.function = "calculateEAN8CheckDigit"
    /\ extracted' = calculateEAN8CheckDigit(argument.value)
    /\ pc' = "returned"
    /\ UNCHANGED calleeFrame

CallCalculateUPCACheckDigit ==
    /\ pc = "call" /\ argument.function = "calculateUPCACheckDigit"
    /\ extracted' = calculateUPCACheckDigit(argument.value)
    /\ pc' = "returned"
    /\ UNCHANGED calleeFrame

\* every pattern of 7 modules
ModulePatterns == [1..7 -> {0, 1}]

CallDecodeEAN13LeftDigit ==
    /\ pc = "call" /\ argument.function = "decodeEAN13LeftDigit"
    /\ extracted' = decodeEAN13LeftDigit(argument.value)
    /\ pc' = "returned"
    /\ UNCHANGED calleeFrame

CallDecodeEAN13RightDigit ==
    /\ pc = "call" /\ argument.function = "decodeEAN13RightDigit"
    /\ extracted' = decodeEAN13RightDigit(argument.value)
    /\ pc' = "returned"
    /\ UNCHANGED calleeFrame

\* every pattern of 6 widths of 1 to 3 modules
WidthPatterns == [1..6 -> 1..3]

CallDecodeCode128Character ==
    /\ pc = "call" /\ argument.function = "decodeCode128Character"
    /\ extracted' = decodeCode128Character(argument.value)
    /\ pc' = "returned"
    /\ UNCHANGED calleeFrame

MaxGroups == 4

\* the groups of a Code128 line: the table entries of 0, 5 and 9, and six
\* widths that match no entry
Code128Groups ==
    {CODE128_PATTERNS[1], CODE128_PATTERNS[6], CODE128_PATTERNS[10], Run(4, 6)}

\* the start pattern 2-1-1, 3 to MaxGroups groups and up to 5 more widths
Code128Lines ==
    UNION {{<<2, 1, 1>> \o Concat(groups) \o Run(4, rest) :
               groups \in [1..n -> Code128Groups], rest \in 0..5} : n \in 3..MaxGroups}

CallDecodeCode128 ==
    /\ pc = "call" /\ argument.function = "decodeCode128"
    /\ extracted' = decodeCode128(argument.value)
    /\ pc' = "returned"
    /\ UNCHANGED calleeFrame

\* the calls of `function` with the given arguments
CallsOf(function, values) == {[function |-> function, value |-> v] : v \in values}

\* strings with and without non-digits; lines of two intensities; the modules
\* of d followed by its check digit; 12, 7 and 11 data digits; patterns of 7
\* modules and of 6 widths
FunctionCalls ==
    UNION {CallsOf("validateBarcode", Payloads),
           CallsOf("calculateThreshold", TwoLevelLines),
           CallsOf("decodeEAN13",
                   {[digits |-> d, modules |-> EncodeEAN13(d \o calculateEAN13CheckDigit(d))] :
                       d \in DataStrings}),
           CallsOf("calculateEAN13CheckDigit", CheckDigitData),
           CallsOf("calculateEAN8CheckDigit", {SubSeq(d, 1, 7) : d \in CheckDigitData}),
           CallsOf("calculateUPCACheckDigit", {SubSeq(d, 1, 11) : d \in CheckDigitData}),
           CallsOf("decodeEAN13LeftDigit", ModulePatterns),
           CallsOf("decodeEAN13RightDigit", ModulePatterns),
           CallsOf("decodeCode128Character", WidthPatterns),
           CallsOf("decodeCode128", Code128Lines)}

InitFunctions ==
    /\ argument \in FunctionCalls
    /\ pc = "call"
    /\ entry = "RealBarcodeDecoder"
    /\ imageBuffer = UnreadableBuffer
    /\ image = <<>>
    /\ debugInfo = <<>>
    /\ approachIdx = 0
    /\ bestLine = <<>>
    /\ normalizedWidths = <<>>
    /\ formatIdx = 0
    /\ calls = <<>>
    /\ result = NoResult
    /\ scannedItems = <<>>
    /\ response = NoResponse
    /\ thresholdIdx = 0
    /\ extracted = Null
    /\ other = NoCall
    /\ approaches = NoApproaches
    /\ clock = 1

NextFunctions ==
    \/ CallValidateBarcode
    \/ CallCalculateThreshold
    \/ CallDecodeEAN13
    \/ CallCalculateEAN13CheckDigit
    \/ CallCalculateEAN8CheckDigit
    \/ CallCalculateUPCACheckDigit
    \/ CallDecodeEAN13LeftDigit
    \/ CallDecodeEAN13RightDigit
    \/ CallDecodeCode128Character
    \/ CallDecodeCode128

SpecFunctions == InitFunctions /\ [][NextFunctions]_vars

ReturnedFrom(function) == pc = "returned" /\ argument.function = function

\* the number of characters '0'..'9' in a string
DigitCount(payload) ==
    Cardinality({i \in 1..Len(payload) :
                   payload[i] \in {"0", "1", "2", "3", "4", "5", "6", "7", "8", "9"}})

\* C11: validateBarcode(payload) returns a boolean, true exactly when the
\* payload holds at least 8 and at most 20 decimal digits, whatever other
\* characters stand between them.
C11_ValidateBarcode ==
    ReturnedFrom("validateBarcode") =>
        /\ extracted \in BOOLEAN
        /\ extracted <=> (DigitCount(argument.value) >= 8 /\ DigitCount(argument.value) <= 20)

\* accepted: 20 digits among other characters, 23 characters in all
C11_Witness ==
    /\ ReturnedFrom("validateBarcode")
    /\ extracted = TRUE
    /\ DigitCount(argument.value) = 20 /\ Len(argument.value) = 23

----------------------------------------------------------------------------
(* Two calls of RealBarcodeDecoder.scanFromImageBuffer in one process.     *)
(* JavaScript runs one call at a time and changes over only where a call   *)
(* awaits: Jimp.read, scanQRCode, and decodeBarcodeFromImage once per      *)
(* approach.  The variables of a request hold the running call, `other`    *)
(* the locals of the suspended one.                                        *)

AwaitPoints == {"Jimp.read", "scanQRCode", "decodeBarcodeFromImage"}

PairImages ==
    {<<LineCatalogue[i], UniformLine>> : i \in 1..Len(LineCatalogue)} \cup {<<UniformLine>>}

PairBuffers ==
    {UnreadableBuffer}
        \cup {[decodable |-> TRUE, pixels |-> img, qr |-> [found |-> FALSE, data |-> <<>>]] :
                 img \in PairImages}
        \cup {[decodable |-> TRUE, pixels |-> <<Code5Line, UniformLine>>,
               qr |-> [found |-> TRUE, data |-> <<"H", "E", "L", "L", "O">>]]}

\* the locals of a call that has run up to its first await
StartedCall(buffer) ==
    [imageBuffer |-> buffer, pc |-> "Jimp.read", image |-> <<>>, debugInfo |-> <<>>,
     approachIdx |-> 0, bestLine |-> <<>>, normalizedWidths |-> <<>>, formatIdx |-> 0,
     calls |-> <<>>, result |-> NoResult, approaches |-> NoApproaches]

\* the locals of the running call
CallLocals ==
    [imageBuffer |-> imageBuffer, pc |-> pc, image |-> image, debugInfo |-> debugInfo,
     approachIdx |-> approachIdx, bestLine |-> bestLine,
     normalizedWidths |-> normalizedWidths, formatIdx |-> formatIdx,
     calls |-> calls, result |-> result, approaches |-> approaches]

\* the resumed call finds the debugInfo array the other call wrote last
ResumeSharedDebugInfo == [other EXCEPT !.debugInfo = debugInfo]

\* what the resumed call finds: its own locals, as it left them
Resume == other

InitTwo ==
    /\ entry = "RealBarcodeDecoder"
    /\ imageBuffer \in PairBuffers
    /\ other \in {StartedCall(buffer) : buffer \in PairBuffers}
    /\ pc = "Jimp.read"
    /\ image = <<>>
    /\ debugInfo = <<>>
    /\ approachIdx = 0
    /\ bestLine = <<>>
    /\ normalizedWidths = <<>>
    /\ formatIdx = 0
    /\ calls = <<>>
    /\ result = NoResult
    /\ scannedItems = <<>>
    /\ response = NoResponse
    /\ thresholdIdx = 0
    /\ extracted = Null
    /\ argument = NoArgument
    /\ approaches = NoApproaches
    /\ clock = 1

\* the running call awaits (or has returned) and the event loop resumes the other
Switch ==
    /\ Real /\ pc \in AwaitPoints \cup {"done"}
    /\ other.pc # "done"
    /\ other' = CallLocals
    /\ \E resumed \in {Resume} :
           /\ imageBuffer' = resumed.imageBuffer
           /\ pc' = resumed.pc
           /\ image' = resumed.image
           /\ debugInfo' = resumed.debugInfo
           /\ approachIdx' = resumed.approachIdx
           /\ bestLine' = resumed.bestLine
           /\ normalizedWidths' = resumed.normalizedWidths
           /\ formatIdx' = resumed.formatIdx
           /\ calls' = resumed.calls
           /\ result' = resumed.result
           /\ approaches' = resumed.approaches
    /\ UNCHANGED <<entry, scannedItems, response, thresholdIdx, extracted, argument, clock>>

NextTwo ==
    \/ ReadImage
    \/ ScanQR
    \/ SelectBestLine
    \/ MeasureLine
    \/ TryFormat
    \/ Switch

SpecTwo == InitTwo /\ [][NextTwo]_vars

\* scanFromImageBuffer as a function of the bytes: the result of a call
\* that runs alone
ScanAlone(buffer) ==
    LET Barcode(barcodeResult) ==
            IF barcodeResult # Null
            THEN BarcodeSuccess(barcodeResult, <<"Image", Width(buffer.pixels), Height(buffer.pixels)>>)
            ELSE [success |-> FALSE, barcode |-> Null, error |-> NoBarcodeError,
                  debugInfo |-> <<"Image", Width(buffer.pixels), Height(buffer.pixels)>>]
    IN  IF ~buffer.decodable
        THEN [success |-> FALSE, barcode |-> Null, error |-> "Failed to process image",
              debugInfo |-> <<"Error">>]
        ELSE IF buffer.qr.found /\ buffer.qr.data # <<>>
        THEN [success |-> TRUE, barcode |-> buffer.qr.data, error |-> "",
              debugInfo |-> <<"QR Code detected", buffer.qr.data>>]
        ELSE Apply(Barcode, decodeTraditionalBarcode(buffer.pixels))

BothReturned == Returned /\ other.pc = "done"

\* C12: two calls of scanFromImageBuffer on the same bytes, one after the
\* other or interleaved, return identical results: success, barcode, error
\* and debugInfo.
C12_Deterministic ==
    (BothReturned /\ imageBuffer = other.imageBuffer) => result = other.result

\* the same striped image decoded twice, to the same barcode
C12_Witness ==
    /\ BothReturned /\ imageBuffer = other.imageBuffer
    /\ result.success /\ calls # <<>> /\ other.calls # <<>>
    /\ result = other.result

\* C13: each of two interleaved calls returns what it returns when it runs
\* alone.
C13_Isolated ==
    /\ Returned => result = ScanAlone(imageBuffer)
    /\ other.pc = "done" => other.result = ScanAlone(other.imageBuffer)

\* a call that ran from start to return while the other, on different
\* bytes, was suspended between two approaches
C13_Witness ==
    /\ Returned /\ result = ScanAlone(imageBuffer)
    /\ calls # <<>>
    /\ other.pc = "decodeBarcodeFromImage" /\ other.approachIdx >= 1
    /\ other.imageBuffer # imageBuffer
    /\ other.debugInfo # debugInfo

----------------------------------------------------------------------------
(* The work of one request of RealBarcodeDecoder.                          *)

\* the approaches whose rows have been analysed so far
ApproachesAnalysed ==
    IF pc \in {"Jimp.read", "scanQRCode"} \/ image = <<>> THEN 0
    ELSE IF pc = "decodeBarcodeFromImage" THEN approachIdx
    ELSE approachIdx + 1

\* the (transform, line) evaluations of analyzeBarcodeLine and the
\* (transform, line, decoder) evaluations of the formats, so far
Evaluations == ApproachesAnalysed * Cardinality(ScanBand(image)) + Len(calls)

\* a budget that lets every approach analyse one row and try every format
Budget == ApproachCount * (1 + FormatCount)

\* C14: one request makes at most Budget evaluations, and a request that has
\* used its budget up without a barcode returns a failure that is not the
\* no-barcode failure.
C14_BudgetEnforced ==
    /\ Evaluations <= Budget
    /\ (Returned /\ ~result.success /\ Evaluations >= Budget) => result.error # NoBarcodeError

----------------------------------------------------------------------------
(* Images without structure.                                               *)

IsUniform(bitmap) ==
    /\ bitmap # <<>>
    /\ \A y \in 1..Height(bitmap) : \A x \in 1..Width(bitmap) : bitmap[y][x] = bitmap[1][1]

\* C15: for an image of one gray intensity and no QR code, scanFromImageBuffer
\* returns the no-barcode failure; under every approach every row has zero
\* transitions, and no format is ever tried.
C15_UniformImage ==
    (Real /\ Returned /\ imageBuffer.decodable /\ ~QRPayload /\ IsUniform(imageBuffer.pixels))
        => /\ IsFailure(result, NoBarcodeError)
           /\ calls = <<>>
           /\ \A i \in 0..(ApproachCount - 1) :
                 \A y \in 1..Height(image) :
                    TransitionsOf(Approach(i, image)[y]) = <<>>

\* a three-row image of intensity 100, rejected after the last approach
C15_Witness ==
    /\ Real /\ Returned /\ ~QRPayload
    /\ IsUniform(imageBuffer.pixels)
    /\ Height(imageBuffer.pixels) = MaxHeight /\ imageBuffer.pixels[1][1] = 100
    /\ approachIdx = ApproachCount - 1
    /\ IsFailure(result, NoBarcodeError)

----------------------------------------------------------------------------
(* Otsu's threshold on a line of two intensities.                          *)

Levels(line) == {line[i] : i \in 1..Len(line)}

\* C16: on a line of exactly two intensities lo < hi, calculateThreshold
\* returns t with lo < t < hi, and 'pixel < t ? 0 : 1' maps every lo pixel to
\* 0 and every hi pixel to 1.
C16_OtsuSeparates ==
    (ReturnedFrom("calculateThreshold") /\ Cardinality(Levels(argument.value)) = 2)
        => \E lo, hi \in Levels(argument.value) :
              /\ lo < hi
              /\ lo < extracted.threshold /\ extracted.threshold < hi
              /\ \A i \in 1..Len(argument.value) :
                    extracted.binary[i] = IF argument.value[i] = lo THEN 0 ELSE 1

----------------------------------------------------------------------------
(* EAN-13: encode, then decode.                                            *)

\* C17: decodeEAN13 of the standard EAN-13 module sequence of a 12-digit
\* string d followed by checkDigit(d) returns d followed by checkDigit(d).
C17_EAN13RoundTrip ==
    ReturnedFrom("decodeEAN13")
        => extracted = argument.value.digits \o calculateEAN13CheckDigit(argument.value.digits)

----------------------------------------------------------------------------
(* The diagnostic trace of a failed scan.                                  *)

\* the entries of a debugInfo string after its image line
TraceEntries(info) == SubSeq(info, Len(ImageInfo(image)) + 1, Len(info))

\* C18: the debugInfo of a failed scan has, for every approach that was
\* tried and gave no result, an entry that names the approach and the reason
\* of the rejection.
C18_DiagnosticTrace ==
    (Real /\ Returned /\ imageBuffer.decodable /\ ~result.success)
        => \A i \in 0..approachIdx :
              \E k \in 1..Len(TraceEntries(result.debugInfo)) :
                 /\ TraceEntries(result.debugInfo)[k].strategy = ApproachNames[i + 1]
                 /\ TraceEntries(result.debugInfo)[k].reason # ""





----------------------------------------------------------------------------
(* Check digits.                                                           *)

RECURSIVE StatedSum(_, _, _)
\* the sum of digit * weight, from the last digit down: the digit at the
\* 0-based position p has the weight evenWeight if p is even, else oddWeight
StatedSum(digits, evenWeight, oddWeight) ==
    IF digits = <<>> THEN 0
    ELSE LET p == Len(digits) - 1
             digit == CHOOSE v \in 0..9 : DigitChars[v + 1] = digits[Len(digits)]
         IN  StatedSum(SubSeq(digits, 1, p), evenWeight, oddWeight)
                 + digit * (IF p % 2 = 0 THEN evenWeight ELSE oddWeight)

StatedCheckDigit(digits, evenWeight, oddWeight) ==
    <<DigitChars[((10 - (StatedSum(digits, evenWeight, oddWeight) % 10)) % 10) + 1]>>

\* C19: the check digit of 12 EAN-13 digits is (10 - (S mod 10)) mod 10 with
\* the weights 1 (even positions) and 3 (odd positions); of 7 EAN-8 digits
\* and of 11 UPC-A digits with the weights 3 (even) and 1 (odd); it is one
\* character '0'..'9'.
C19_CheckDigits ==
    /\ (ReturnedFrom("calculateEAN13CheckDigit") /\ Len(argument.value) = 12)
           => extracted = StatedCheckDigit(argument.value, 1, 3)
    /\ (ReturnedFrom("calculateEAN8CheckDigit") /\ Len(argument.value) = 7)
           => extracted = StatedCheckDigit(argument.value, 3, 1)
    /\ (ReturnedFrom("calculateUPCACheckDigit") /\ Len(argument.value) = 11)
           => extracted = StatedCheckDigit(argument.value, 3, 1)
    /\ (\E symbology \in {"EAN13", "EAN8", "UPCA"} :
            ReturnedFrom("calculate" \o symbology \o "CheckDigit"))
           => Len(extracted) = 1 /\ \E v \in 0..9 : extracted[1] = DigitChars[v + 1]

\* an EAN-8 check digit that the EAN-13 weights would get wrong
C19_Witness ==
    /\ ReturnedFrom("calculateEAN8CheckDigit") /\ Len(argument.value) = 7
    /\ extracted = StatedCheckDigit(argument.value, 3, 1)
    /\ extracted # StatedCheckDigit(argument.value, 1, 3)
    /\ extracted = <<"0">>





----------------------------------------------------------------------------
(* Digit lookup.                                                           *)

\* the digits whose table entry agrees with the pattern in at least 80% of
\* the positions
Agreeing(table, pattern) ==
    {d \in 0..9 :
        /\ Len(table[d + 1]) = Len(pattern)
        /\ 10 * Cardinality({i \in 1..Len(pattern) : table[d + 1][i] = pattern[i]})
               >= 8 * Len(pattern)}

Unambiguous(table) ==
    /\ extracted # Null => Agreeing(table, argument.value) = {ParseInt(extracted[1])}
    /\ Cardinality(Agreeing(table, argument.value)) >= 2 => extracted = Null

\* C20: decodeEAN13LeftDigit, decodeEAN13RightDigit and
\* decodeCode128Character return a digit only when its table entry, and no
\* other, agrees with the pattern in at least 80% of the positions; a
\* pattern within the tolerance of two or more entries yields no digit.
C20_LookupUnambiguous ==
    /\ ReturnedFrom("decodeEAN13LeftDigit") => Unambiguous(EAN13_LEFT_PATTERNS)
    /\ ReturnedFrom("decodeEAN13RightDigit") => Unambiguous(EAN13_RIGHT_PATTERNS)
    /\ ReturnedFrom("decodeCode128Character") => Unambiguous(CODE128_PATTERNS)

----------------------------------------------------------------------------
(* Transitions and widths of a binarized line.                             *)

\* the transition lists the entry computes for its line: one for the Otsu
\* threshold, or one per threshold of ImprovedBarcodeScanner
LineTransitions ==
    IF entry = ImprovedScanner
    THEN {FindTransitions(BinarizeTwice(bestLine, ThresholdTwice(k, bestLine))) :
             k \in 0..(ThresholdCount - 1)}
    ELSE {TransitionsOf(bestLine)}

\* C21: the transition indices of a binarized line are strictly increasing
\* values in 1..length-1, every bar width is a positive integer, and the
\* normalised widths are integers >= 1 with at least one equal to 1, one for
\* each bar width.
C21_WidthsPositive ==
    /\ bestLine # <<>> =>
          \A transitions \in LineTransitions :
             /\ \A i \in 1..Len(transitions) :
                   /\ transitions[i] \in 1..(Len(bestLine) - 1)
                   /\ i > 1 => transitions[i - 1] < transitions[i]
             /\ \A i \in 1..Len(BarWidths(transitions)) : BarWidths(transitions)[i] \in Nat \ {0}
    /\ normalizedWidths # <<>> =>
          /\ \A i \in 1..Len(normalizedWidths) : normalizedWidths[i] \in Nat \ {0}
          /\ \E i \in 1..Len(normalizedWidths) : normalizedWidths[i] = 1
          /\ \E transitions \in LineTransitions : Len(normalizedWidths) = Len(transitions) - 1

\* widths of one and of several modules, handed to the formats
C21_Witness ==
    /\ pc \in {"formats", "decodeBarcode", "decoders"}
    /\ \E i, j \in 1..Len(normalizedWidths) : normalizedWidths[i] = 1 /\ normalizedWidths[j] >= 2

----------------------------------------------------------------------------
(* The buffers of the approaches.                                          *)

\* C22: once decodeTraditionalBarcode has built its approaches, and until the
\* request returns, the loaded image has the pixels that were read; the
\* 'original' approach is that image; the approaches are pairwise distinct
\* buffers, each holding its own transform of the loaded pixels and nothing
\* of another transform.
C22_NoAliasing ==
    (Real /\ approaches.refs # <<>>)
        => /\ image = imageBuffer.pixels
           /\ approaches.heap[1] = imageBuffer.pixels
           /\ approaches.refs[1] = 1
           /\ Len(approaches.refs) = ApproachCount
           /\ \A i, j \in 1..ApproachCount : i # j => approaches.refs[i] # approaches.refs[j]
           /\ \A i \in 1..ApproachCount :
                 approaches.heap[approaches.refs[i]] = Approach(i - 1, imageBuffer.pixels)

\* every approach tried on an image that the inversion changes
C22_Witness ==
    /\ Real /\ Returned /\ approaches.refs # <<>>
    /\ approachIdx = ApproachCount - 1
    /\ image = imageBuffer.pixels
    /\ approaches.heap[approaches.refs[ApproachCount]] # image
    /\ approaches.heap[approaches.refs[2]] # approaches.heap[approaches.refs[ApproachCount]]

----------------------------------------------------------------------------
(* Code128 data.                                                           *)

RECURSIVE CompleteGroups(_, _)
\* the digits of the complete 6-width groups from `index` on, up to the
\* first group that matches no table entry
CompleteGroups(widths, index) ==
    IF index + 6 > Len(widths) THEN <<>>
    ELSE LET char == decodeCode128Character(Slice(widths, index, index + 6))
         IN  IF char = Null THEN <<>>
             ELSE char \o CompleteGroups(widths, index + 6)

\* C23: with the start pattern 2-1-1 at index s, decodeCode128 returns the
\* digits of every complete 6-width group at s+3, s+9, ... up to the first
\* group that matches no entry or the end of the widths, and no result when
\* the first group does not match.
C23_Code128AllGroups ==
    (ReturnedFrom("decodeCode128") /\ FindStart(argument.value, 2, 1, 1, Len(argument.value) - 3) = 0)
        => extracted = CompleteGroups(argument.value, 3)

----------------------------------------------------------------------------
(* The thresholds of ImprovedBarcodeScanner.extractBarcodeFromLine.        *)

\* the transitions of the line binarized with the Otsu threshold
OtsuTransitions == FindTransitions(BinarizeTwice(bestLine, ThresholdTwice(0, bestLine)))

\* C24: extractBarcodeFromLine goes on to the mean, median or adaptive
\* threshold only when the Otsu binarization has fewer than 10 or more than
\* 300 transitions.
C24_FallbackOnlyOutOfBand ==
    (entry = ImprovedScanner /\ thresholdIdx >= 1)
        => (Len(OtsuTransitions) < 10 \/ Len(OtsuTransitions) > 300)

----------------------------------------------------------------------------
(* The shape of what the decoders return.                                  *)

\* `digits` digits, the last of them the check digit of the others
WellFormed(code, digits, evenWeight, oddWeight) ==
    /\ Len(code) = digits
    /\ \A i \in 1..digits : \E v \in 0..9 : code[i] = DigitChars[v + 1]
    /\ <<code[digits]>> = StatedCheckDigit(SubSeq(code, 1, digits - 1), evenWeight, oddWeight)

\* C25: decodeEAN13 returns nothing or 13 digits, decodeEAN8 nothing or 8,
\* decodeUPC nothing or 12, the last digit being the check digit of the
\* digits before it; below 95, 67 and 51 widths they return nothing.
C25_ResultShape ==
    pc = "returned" =>
        /\ formatIdx = 0 =>
              /\ extracted = Null \/ WellFormed(extracted, 13, 1, 3)
              /\ Len(normalizedWidths) < 95 => extracted = Null
        /\ formatIdx = 1 =>
              /\ extracted = Null \/ WellFormed(extracted, 8, 3, 1)
              /\ Len(normalizedWidths) < 67 => extracted = Null
        /\ formatIdx = 3 =>
              /\ extracted = Null \/ WellFormed(extracted, 12, 3, 1)
              /\ Len(normalizedWidths) < 51 => extracted = Null

\* an EAN-8 symbol decoded to 8 digits
C25_Witness ==
    /\ pc = "returned" /\ formatIdx = 1
    /\ Len(normalizedWidths) = 67
    /\ WellFormed(extracted, 8, 3, 1)

----------------------------------------------------------------------------
(* The server: index.ts.  scannedItems is one array for the whole process; *)
(* every handler runs to its response before the next request is taken up  *)
(* (POST /api/scan-camera awaits the decode before it touches the array).   *)
(* `argument` is the request being answered, `response` its answer.         *)

MaxItems == 2

\* barcode.trim()
Trim(barcode) ==
    LET inner == {i \in 1..Len(barcode) : barcode[i] # " "}
    IN  IF inner = {} THEN <<>> ELSE SubSeq(barcode, Min(inner), -Min({-i : i \in inner}))

\* req.body.barcode: absent or empty, a catalogue code, a code between
\* spaces, and letters
ScanBodies ==
    {<<>>, TestBarcode, <<" ", "1", "2", "3", " ">>, <<"A", "B", "C">>}

\* the images a camera sends: unreadable bytes, a QR code without digits, a
\* QR code of 13 digits, no code at all, and bars
CameraBuffers ==
    {UnreadableBuffer,
     [decodable |-> TRUE, pixels |-> <<UniformLine>>,
      qr |-> [found |-> TRUE, data |-> <<"H", "E", "L", "L", "O">>]],
     [decodable |-> TRUE, pixels |-> <<UniformLine>>,
      qr |-> [found |-> TRUE,
              data |-> <<"4", "0", "0", "6", "3", "8", "1", "3", "3", "3", "9", "3", "1">>]],
     [decodable |-> TRUE, pixels |-> <<UniformLine>>, qr |-> [found |-> FALSE, data |-> <<>>]],
     [decodable |-> TRUE, pixels |-> <<Code5Line, Code5Line, UniformLine>>,
      qr |-> [found |-> FALSE, data |-> <<>>]]}

\* req.body.imageData: absent, not a string, or the base64 text of an image
CameraBodies ==
    {[kind |-> "absent", buffer |-> UnreadableBuffer],
     [kind |-> "number", buffer |-> UnreadableBuffer]}
        \cup {[kind |-> "base64", buffer |-> b] : b \in CameraBuffers}

Answer(status, error, data) == [status |-> status, error |-> error, data |-> data]

\* the test of POST /api/scan without RealBarcodeDecoder.validateBarcode
CameraAcceptsUnvalidated(scanResult) ==
    scanResult.success /\ scanResult.barcode # Null

\* POST /api/scan-camera goes on to newItem: neither
\* !scanResult.success || !scanResult.barcode nor !validateBarcode(barcode)
CameraAccepts(scanResult) ==
    /\ scanResult.success /\ scanResult.barcode # Null
    /\ validateBarcode(scanResult.barcode)

\* POST /api/scan answering 201 whatever the body
ScanAcceptsAll(barcode) == Len(barcode) >= 0

\* POST /api/scan goes on to newItem: not !barcode
ScanAccepts(barcode) == barcode # <<>>

InitServer ==
    /\ entry = "server"
    /\ pc = "listening"
    /\ scannedItems = <<>>
    /\ response = NoResponse
    /\ argument = NoArgument
    /\ clock = 1
    /\ imageBuffer = UnreadableBuffer
    /\ image = <<>>
    /\ debugInfo = <<>>
    /\ approachIdx = 0
    /\ bestLine = <<>>
    /\ normalizedWidths = <<>>
    /\ formatIdx = 0
    /\ calls = <<>>
    /\ result = NoResult
    /\ thresholdIdx = 0
    /\ extracted = Null
    /\ other = NoCall
    /\ approaches = NoApproaches

serverFrame ==
    <<entry, pc, imageBuffer, image, debugInfo, approachIdx, bestLine, normalizedWidths,
      formatIdx, calls, result, thresholdIdx, extracted, other, approaches>>

\* the request taken up
Serving(request) ==
    /\ entry = "server" /\ pc = "listening"
    /\ argument' = request

\* a millisecond passes
Tick ==
    /\ entry = "server" /\ clock < MaxClock
    /\ clock' = clock + 1
    /\ UNCHANGED <<serverFrame, scannedItems, response, argument>>

\* scannedItems.push(newItem); res.status(201).json({ data: newItem })
\* (the list is followed up to MaxItems items)
Created(barcode) ==
    /\ Len(scannedItems) < MaxItems
    /\ scannedItems' = Append(scannedItems, NewItem(clock, barcode))
    /\ response' = Answer(201, "", NewItem(clock, barcode))

Refused(status, error) ==
    /\ response' = Answer(status, error, <<>>)
    /\ UNCHANGED scannedItems

GetItems ==
    /\ Serving([function |-> "GET /api/items", value |-> <<>>])
    /\ response' = Answer(200, "", scannedItems)
    /\ UNCHANGED <<serverFrame, scannedItems, clock>>

PostScan ==
    /\ \E barcode \in ScanBodies :
          /\ Serving([function |-> "POST /api/scan", value |-> barcode])
          /\ IF ~ScanAccepts(barcode) THEN Refused(400, "Barcode is required")
             ELSE Created(Trim(barcode))
    /\ UNCHANGED <<serverFrame, clock>>

DeleteItems ==
    /\ Serving([function |-> "DELETE /api/items", value |-> <<>>])
    /\ scannedItems' = <<>>
    /\ response' = Answer(200, "", <<>>)
    /\ UNCHANGED <<serverFrame, clock>>

GetHealth ==
    /\ Serving([function |-> "GET /health", value |-> <<>>])
    /\ response' = Answer(200, "", <<>>)
    /\ UNCHANGED <<serverFrame, scannedItems, clock>>

GetBarcodes ==
    /\ Serving([function |-> "GET /api/barcodes", value |-> <<>>])
    /\ response' = Answer(200, "", [i \in 1..Len(productDatabase) |-> productDatabase[i].barcode])
    /\ UNCHANGED <<serverFrame, scannedItems, clock>>

PostTestSimple ==
    /\ \E hasFile \in BOOLEAN :
          /\ Serving([function |-> "POST /api/test-simple", value |-> <<hasFile>>])
          /\ IF ~hasFile THEN Refused(400, "No image file provided")
             ELSE Created(TestBarcode)
    /\ UNCHANGED <<serverFrame, clock>>

\* res.json without a status: 200, and no item
PostTestScan ==
    /\ \E hasFile \in BOOLEAN :
          /\ Serving([function |-> "POST /api/test-scan", value |-> <<hasFile>>])
          /\ IF ~hasFile THEN Refused(400, "No image file provided")
             ELSE \E buffer \in CameraBuffers :
                     /\ response' = Answer(200, "", ScanAlone(buffer))
                     /\ UNCHANGED scannedItems
    /\ UNCHANGED <<serverFrame, clock>>

\* POST /api/scan-image among other requests
ServeScanImage ==
    /\ \E hasFile \in BOOLEAN :
          /\ Serving([function |-> "POST /api/scan-image", value |-> <<hasFile>>])
          /\ IF ~hasFile THEN Refused(400, "No image file provided")
             ELSE IF ~ScanImageResult.success \/ ScanImageResult.barcode = Null
             THEN Refused(400, "No barcode found in image")
             ELSE IF ~validateBarcode(ScanImageResult.barcode)
             THEN Refused(400, "Invalid barcode format")
             ELSE Created(ScanImageResult.barcode)
    /\ UNCHANGED <<serverFrame, clock>>

\* imageData.replace throws for a value that is not a string: the catch block
PostScanCamera ==
    /\ \E imageData \in CameraBodies :
          /\ Serving([function |-> "POST /api/scan-camera", value |-> imageData])
          /\ IF imageData.kind = "absent" THEN Refused(400, "No image data provided")
             ELSE IF imageData.kind # "base64" THEN Refused(500, "Failed to process camera image")
             ELSE \E scanResult \in {ScanAlone(imageData.buffer)} :
                     IF ~CameraAccepts(scanResult)
                     THEN Refused(400, IF ~scanResult.success \/ scanResult.barcode = Null
                                       THEN scanResult.error ELSE "Invalid barcode format")
                     ELSE Created(scanResult.barcode)
    /\ UNCHANGED <<serverFrame, clock>>

NextServer ==
    \/ Tick
    \/ GetItems
    \/ PostScan
    \/ DeleteItems
    \/ GetHealth
    \/ GetBarcodes
    \/ PostTestScan
    \/ PostTestSimple
    \/ ServeScanImage
    \/ PostScanCamera

SpecServer == InitServer /\ [][NextServer]_vars

\* C26: the item list starts empty; a request answered 201 appends the item
\* it returns, DELETE /api/items leaves the list empty, and every other
\* request (GET /api/items, GET /api/barcodes, /health, any request answered
\* 400 or 500, POST /api/scan without a barcode among them) and the passing
\* of time leave it unchanged.
C26_ItemListLifecycle ==
    /\ scannedItems = <<>>
    /\ [][/\ clock' # clock => scannedItems' = scannedItems
          /\ clock' = clock =>
                /\ IF argument'.function = "DELETE /api/items" THEN scannedItems' = <<>>
                   ELSE IF response'.status = 201
                   THEN scannedItems' = Append(scannedItems, response'.data)
                   ELSE scannedItems' = scannedItems
                /\ argument' = [function |-> "POST /api/scan", value |-> <<>>]
                       => response'.status = 400 /\ scannedItems' = scannedItems
                /\ argument'.function \in {"GET /api/items", "GET /api/barcodes", "GET /health"}
                       => response'.status = 200]_vars

\* two requests answered 201, their items in the list in order
C26_Witness ==
    /\ entry = "server" /\ Len(scannedItems) = 2
    /\ response.status = 201 /\ scannedItems[2] = response.data
    /\ scannedItems[1].barcode # scannedItems[2].barcode


\* C28: POST /api/scan-camera answers 201 and appends exactly one item, the
\* one it returns, if and only if imageData is present, the decode succeeds
\* with a non-empty barcode and that barcode holds 8 to 20 digits; otherwise
\* it answers 400 or 500 and leaves the list as it was, so a decoded payload
\* of fewer than 8 digits is never added.
C28_ScanCamera ==
    [][(argument'.function = "POST /api/scan-camera" /\ clock' = clock) =>
          \A imageData \in {argument'.value} :
             \A scanResult \in {IF imageData.kind = "base64" THEN ScanAlone(imageData.buffer)
                                 ELSE [success |-> FALSE, barcode |-> Null]} :
                IF /\ imageData.kind = "base64"
                   /\ scanResult.success /\ Len(scanResult.barcode) > 0
                   /\ DigitCount(scanResult.barcode) \in 8..20
                THEN /\ response'.status = 201
                     /\ response'.data.barcode = scanResult.barcode
                     /\ scannedItems' = Append(scannedItems, response'.data)
                ELSE /\ response'.status \in {400, 500}
                     /\ scannedItems' = scannedItems]_vars

\* a QR payload without digits was decoded and refused, after the QR code of
\* 13 digits was added
C28_Witness ==
    /\ argument.function = "POST /api/scan-camera"
    /\ argument.value.kind = "base64"
    /\ argument.value.buffer.qr = [found |-> TRUE, data |-> <<"H", "E", "L", "L", "O">>]
    /\ response = Answer(400, "Invalid barcode format", <<>>)
    /\ Len(scannedItems) = 1
    /\ scannedItems[1].barcode = <<"4", "0", "0", "6", "3", "8", "1", "3", "3", "3", "9", "3", "1">>

\* C29: the items of the list have pairwise distinct ids.
C29_DistinctIds ==
    \A i, j \in 1..Len(scannedItems) : i # j => scannedItems[i].id # scannedItems[j].id


RECURSIVE RightAnchoredSum(_, _)
\* the sum of digit * weight from the right: the last digit has the weight
\* `weight`, the one before it 4 - weight, and so on alternating
RightAnchoredSum(digits, weight) ==
    IF digits = <<>> THEN 0
    ELSE (CHOOSE v \in 0..9 : DigitChars[v + 1] = digits[Len(digits)]) * weight
             + RightAnchoredSum(SubSeq(digits, 1, Len(digits) - 1), 4 - weight)

\* the check digit that brings the right-anchored sum to a multiple of 10
RightAnchoredCheckDigit(digits) ==
    <<DigitChars[((10 - (RightAnchoredSum(digits, 3) % 10)) % 10) + 1]>>

\* C30: calculateEAN13CheckDigit on 12 digits, calculateEAN8CheckDigit on 7
\* and calculateUPCACheckDigit on 11 return the check digit of the rule that
\* weights the rightmost data digit by 3 and alternates 1, 3 leftwards; the
\* full code, check digit weighted 1, has a weighted sum divisible by 10.
C30_RightAnchored ==
    \A call \in {<<"calculateEAN13CheckDigit", 12>>, <<"calculateEAN8CheckDigit", 7>>,
                 <<"calculateUPCACheckDigit", 11>>} :
       (ReturnedFrom(call[1]) /\ Len(argument.value) = call[2])
          => /\ extracted = RightAnchoredCheckDigit(argument.value)
             /\ RightAnchoredSum(argument.value \o extracted, 1) % 10 = 0

\* a UPC-A check digit, not 0, that the left-anchored weights 1, 3 would miss
C30_Witness ==
    /\ ReturnedFrom("calculateUPCACheckDigit") /\ Len(argument.value) = 11
    /\ extracted = RightAnchoredCheckDigit(argument.value)
    /\ extracted # <<"0">>
    /\ extracted # calculateEAN13CheckDigit(argument.value)
    /\ RightAnchoredSum(argument.value \o extracted, 1) % 10 = 0

====
